---- MODULE Spec2Model ----
(***************************************************************************)
(* Migration-Agent: the correlation pipeline of ServerInventory            *)
(* (src/migration_agent_deb_rep.py) and WindowsServerInventory             *)
(* (src/migration_agent_windows.py).                                       *)
(*                                                                         *)
(* One snapshot of socket facts (psutil.net_connections) and a process     *)
(* table (psutil.Process) are fixed at the start; collect_all runs         *)
(* get_network_info, get_application_communication_map and                 *)
(* get_port_dependencies in that order on one inventory object.            *)
(* Strings that the code formats and parses again (the "ip:port"           *)
(* addresses) are sequences of one-character strings, so that formatting   *)
(* and parsing are computed and not assumed.                               *)
(***************************************************************************)
EXTENDS Integers, Sequences, FiniteSets, TLC

(* ------------------------------ bounds --------------------------------- *)

\* longest snapshot (number of socket facts) explored
MaxConns == 3

\* how many times collect_all is called on one inventory object (SpecRerun)
MaxRuns == 2

\* how many processes may exit (or become unreadable) during a behaviour
MaxExits == 1

\* the most lines in the output of one sar run
MaxLines == 3

\* the most data rows in one Performance Monitor log file
MaxRows == 2

(* ------------------------ the world of the snapshot -------------------- *)

\* "no value" (Python None) where a name or a label is expected
None == "None"

\* psutil's raddr of an unconnected socket: the empty tuple
NoAddr == <<>>

Pids == {10, 20, 30}

\* psutil.Process(pid).name(): pids 20 and 30 are two workers of one program
ProcName(pid) == IF pid = 10 THEN "postgres" ELSE "app"

\* ports a process of the snapshot may listen on or connect to
Ports == {5432, 9999}

Lo4 == <<"1", "2", "7", ".", "0", ".", "0", ".", "1">>
Lo6 == <<":", ":", "1">>
Ext4 == <<"1", "0", ".", "0", ".", "0", ".", "1">>

RemoteIps == {Lo4, Lo6, Ext4}

\* the address a socket towards rip is bound to locally
LocalIpFor(rip) == IF rip = Ext4 THEN <<"1", "0", ".", "0", ".", "0", ".", "5">> ELSE rip

AnyAddr == <<"0", ".", "0", ".", "0", ".", "0">>

(* psutil.net_connections(kind='inet') entries, before the enumeration     *)
(* position (fd, ephemeral local port) is filled in                        *)
\* pids 10 and 20 may both listen on the database port; pid 10 also on 9999
ListenShapes ==
    [status : {"LISTEN"}, type : {"SOCK_STREAM"}, pid : {10, 20},
     lport : {5432}, rip : {NoAddr}, rport : {0}]
    \cup
    [status : {"LISTEN"}, type : {"SOCK_STREAM"}, pid : {10},
     lport : {9999}, rip : {NoAddr}, rport : {0}]

\* pid 20 connects to the database port of any host and to port 9999 of this
\* host; pid 30, the second worker, to the local database
EstablishedShapes ==
    [status : {"ESTABLISHED"}, type : {"SOCK_STREAM"}, pid : {20},
     lport : {0}, rip : RemoteIps, rport : {5432}]
    \cup
    [status : {"ESTABLISHED"}, type : {"SOCK_STREAM"}, pid : {20, 30},
     lport : {0}, rip : {Lo4}, rport : {5432}]
    \cup
    [status : {"ESTABLISHED"}, type : {"SOCK_STREAM"}, pid : {20},
     lport : {0}, rip : {Lo4}, rport : {9999}]

\* an unconnected UDP socket: status NONE, no remote address
OtherShapes ==
    [status : {"NONE"}, type : {"SOCK_DGRAM"}, pid : {10},
     lport : {53}, rip : {NoAddr}, rport : {0}]

FactShapes == ListenShapes \cup EstablishedShapes \cup OtherShapes

\* the fact at position i of the enumeration: its fd is i and, when it is a
\* connection, its ephemeral local port is 40000 + i
MkFact(shape, i) ==
    [fd |-> i, status |-> shape.status, type |-> shape.type, pid |-> shape.pid,
     lip |-> IF shape.status = "ESTABLISHED" THEN LocalIpFor(shape.rip) ELSE AnyAddr,
     lport |-> IF shape.status = "ESTABLISHED" THEN 40000 + i ELSE shape.lport,
     rip |-> shape.rip, rport |-> shape.rport]

Snapshots ==
    UNION { { [i \in 1..n |-> MkFact(s[i], i)] : s \in [1..n -> FactShapes] } : n \in 0..MaxConns }

(* ------------------------------ strings -------------------------------- *)

DigitChars == <<"0", "1", "2", "3", "4", "5", "6", "7", "8", "9">>

RECURSIVE FormatInt(_)
\* str(n) / f"{n}" for n >= 0
FormatInt(n) ==
    IF n < 10 THEN <<DigitChars[n + 1]>>
    ELSE FormatInt(n \div 10) \o <<DigitChars[(n % 10) + 1]>>

IsDigit(c) == \E d \in 1..10 : DigitChars[d] = c

DigitVal(c) == (CHOOSE d \in 1..10 : DigitChars[d] = c) - 1

\* int(s) succeeds on a non-empty string of decimal digits
IsIntText(s) == Len(s) > 0 /\ \A k \in 1..Len(s) : IsDigit(s[k])

RECURSIVE ParseInt(_)
ParseInt(s) ==
    IF Len(s) = 0 THEN 0
    ELSE 10 * ParseInt(SubSeq(s, 1, Len(s) - 1)) + DigitVal(s[Len(s)])

\* f"{ip}:{port}"
FormatAddr(ip, port) == ip \o <<":">> \o FormatInt(port)

RECURSIVE Split(_, _)
\* s.split(c) for a one-character separator c: the list of parts
Split(s, c) ==
    IF \A k \in 1..Len(s) : s[k] # c THEN <<s>>
    ELSE LET k == CHOOSE j \in 1..Len(s) : s[j] = c /\ \A m \in 1..(j - 1) : s[m] # c
         IN  <<SubSeq(s, 1, k - 1)>> \o Split(SubSeq(s, k + 1, Len(s)), c)

\* positions where sep occurs in s
Occurrences(s, sep) ==
    { k \in 1..(Len(s) - Len(sep) + 1) : SubSeq(s, k, k + Len(sep) - 1) = sep }

\* s.rsplit(sep, 1): split once at the last occurrence of sep
RSplit1(s, sep) ==
    IF Occurrences(s, sep) = {} THEN <<s>>
    ELSE LET k == CHOOSE j \in Occurrences(s, sep) : \A m \in Occurrences(s, sep) : m <= j
         IN  <<SubSeq(s, 1, k - 1), SubSeq(s, k + Len(sep), Len(s))>>

\* s.startswith(prefix)
StartsWith(s, prefix) == Len(s) >= Len(prefix) /\ SubSeq(s, 1, Len(prefix)) = prefix

\* c in s
Contains(s, c) == \E k \in 1..Len(s) : s[k] = c

\* float(s) succeeds: digits with at most one decimal point (signs, exponents, inf and
\* nan, which float() also takes, are in no modelled input)
IsFloatText(s) ==
    /\ \A k \in 1..Len(s) : IsDigit(s[k]) \/ s[k] = "."
    /\ \E k \in 1..Len(s) : IsDigit(s[k])
    /\ Cardinality({ k \in 1..Len(s) : s[k] = "." }) <= 1

\* float(s), held in hundredths; digits after the second decimal are dropped
ParseFloat(s) ==
    LET parts == Split(s, ".")
        frac == IF Len(parts) = 2 THEN parts[2] ELSE <<>>
        tenths == IF Len(frac) >= 1 THEN DigitVal(frac[1]) ELSE 0
        hundredths == IF Len(frac) >= 2 THEN DigitVal(frac[2]) ELSE 0
    IN  100 * ParseInt(parts[1]) + 10 * tenths + hundredths

(* ------------- get_previous_day_cpu_utilization (sysstat) --------------- *)

\* the lines sar can print, each already split at white space: the column header of a
\* 24-hour report, a data line of it, a data line of a 12-hour report (the time is
\* followed by AM or PM), a "LINUX RESTART" marker, the summary line, and the summary
\* line printed under a locale with a decimal comma
SarLines ==
    {<<<<"0", "0", ":", "0", "0", ":", "0", "1">>, <<"C", "P", "U">>,
       <<"%", "u", "s", "e", "r">>, <<"%", "n", "i", "c", "e">>,
       <<"%", "s", "y", "s", "t", "e", "m">>, <<"%", "i", "o", "w", "a", "i", "t">>,
       <<"%", "s", "t", "e", "a", "l">>, <<"%", "i", "d", "l", "e">>>>,
     <<<<"0", "0", ":", "1", "0", ":", "0", "1">>, <<"a", "l", "l">>,
       <<"1", ".", "5", "0">>, <<"0", ".", "0", "0">>, <<"0", ".", "5", "0">>,
       <<"0", ".", "1", "0">>, <<"0", ".", "0", "0">>, <<"9", "7", ".", "9", "0">>>>,
     <<<<"1", "2", ":", "1", "0", ":", "0", "1">>, <<"A", "M">>, <<"a", "l", "l">>,
       <<"1", ".", "5", "0">>, <<"0", ".", "0", "0">>, <<"0", ".", "5", "0">>,
       <<"0", ".", "1", "0">>, <<"0", ".", "0", "0">>, <<"9", "7", ".", "9", "0">>>>,
     <<<<"0", "0", ":", "1", "5", ":", "0", "1">>, <<"L", "I", "N", "U", "X">>,
       <<"R", "E", "S", "T", "A", "R", "T">>>>,
     <<<<"A", "v", "e", "r", "a", "g", "e", ":">>, <<"a", "l", "l">>,
       <<"1", ".", "5", "0">>, <<"0", ".", "0", "0">>, <<"0", ".", "5", "0">>,
       <<"0", ".", "1", "0">>, <<"0", ".", "0", "0">>, <<"9", "7", ".", "9", "0">>>>,
     <<<<"A", "v", "e", "r", "a", "g", "e", ":">>, <<"a", "l", "l">>,
       <<"1", ",", "5", "0">>, <<"0", ",", "0", "0">>, <<"0", ",", "5", "0">>,
       <<"0", ",", "1", "0">>, <<"0", ",", "0", "0">>, <<"9", "7", ",", "9", "0">>>>}

\* the outputs of a successful sar run
SarOutputs == UNION { [1..n -> SarLines] : n \in 0..MaxLines }

\* yesterday.strftime('%d') and yesterday.strftime('%Y-%m-%d') on the day of the run
Yesterday == [day |-> "05", date |-> "2026-11-05"]

\* sa_file_path: /var/log/sa on an rpm host, /var/log/sysstat elsewhere
SaFilePath(rpm) ==
    IF rpm THEN "/var/log/sa/sa" \o Yesterday.day ELSE "/var/log/sysstat/sa" \o Yesterday.day

\* what sar prints on stderr when it exits nonzero
SarStderr == "Invalid system activity file"

\* the host as the sysstat reader meets it: whether rpm is installed, whether the
\* daily file exists, how the sar run ends ("ok", "failed" for a nonzero exit,
\* "timeout", "missing" for no sar executable) and what it prints
SysstatWorlds ==
    [rpm : BOOLEAN, exists : {FALSE}, helper : {"ok"}, lines : {<<>>}]
    \cup [rpm : {FALSE}, exists : {TRUE}, helper : {"failed", "timeout", "missing"},
          lines : {<<>>}]
    \cup [rpm : {FALSE}, exists : {TRUE}, helper : {"ok"}, lines : SarOutputs]

\* a host without a daily sysstat file
NoSysstatFile == [rpm |-> FALSE, exists |-> FALSE, helper |-> "ok", lines |-> <<>>]

\* cpu_history['average'] = {}
EmptyAverage == [k \in {} |-> 0]

\* the cpu_history dict as get_previous_day_cpu_utilization creates it; raw_output is
\* the empty list for None and a list of one text otherwise
EmptyCpuHistory ==
    [available |-> FALSE, date |-> None, average |-> EmptyAverage, hourly_data |-> <<>>,
     raw_output |-> <<>>, error |-> None]

\* the body of "if line.startswith('Average:')"; raised stands for the ValueError of
\* float(), which this branch does not catch
SarAverage(ch, parts) ==
    IF Len(parts) < 8 THEN ch
    ELSE IF \A k \in 3..8 : IsFloatText(parts[k])
         THEN [ch EXCEPT !.average =
                  [user |-> ParseFloat(parts[3]), nice |-> ParseFloat(parts[4]),
                   system |-> ParseFloat(parts[5]), iowait |-> ParseFloat(parts[6]),
                   steal |-> ParseFloat(parts[7]), idle |-> ParseFloat(parts[8])]]
         ELSE [ch EXCEPT !.raised = TRUE]

\* the body of the "elif ':' in line ..." branch: a line that is too short, has no time
\* in its first two columns or fails float() or indexing is skipped
SarData(ch, parts) ==
    IF Len(parts) >= 8 /\ (Contains(parts[1], ":") \/ Contains(parts[2], ":"))
    THEN LET t == IF Contains(parts[1], ":") THEN 1 ELSE 2
         IN  IF Len(parts) >= t + 7 /\ \A k \in (t + 2)..(t + 7) : IsFloatText(parts[k])
             THEN [ch EXCEPT !.hourly_data =
                      Append(@, [time |-> parts[t], cpu |-> parts[t + 1],
                                 user |-> ParseFloat(parts[t + 2]),
                                 nice |-> ParseFloat(parts[t + 3]),
                                 system |-> ParseFloat(parts[t + 4]),
                                 iowait |-> ParseFloat(parts[t + 5]),
                                 steal |-> ParseFloat(parts[t + 6]),
                                 idle |-> ParseFloat(parts[t + 7])])]
             ELSE ch
    ELSE ch

\* one iteration of "for line in lines"
SarLine(ch, parts) ==
    IF parts = <<>> THEN ch
    ELSE IF StartsWith(parts[1], <<"A", "v", "e", "r", "a", "g", "e", ":">>)
         THEN SarAverage(ch, parts)
    ELSE IF /\ \E k \in 1..Len(parts) : Contains(parts[k], ":")
            /\ ~StartsWith(parts[1], <<"L", "i", "n", "u", "x">>)
            /\ ~StartsWith(parts[1], <<"A", "v", "e", "r", "a", "g", "e">>)
         THEN SarData(ch, parts)
    ELSE ch

RECURSIVE SarLoop(_, _, _)
\* "for line in lines" over lines[i..]; an exception ends the loop
SarLoop(ch, lines, i) ==
    IF i > Len(lines) \/ ch.raised THEN ch
    ELSE SarLoop(SarLine(ch, lines[i]), lines, i + 1)

\* the cpu_history that get_previous_day_cpu_utilization returns on host w
SysstatCpuHistory(w) ==
    IF ~w.exists
    THEN [EmptyCpuHistory EXCEPT !.error = "Sysstat file not found: " \o SaFilePath(w.rpm)]
    ELSE IF w.helper = "missing"
    THEN [EmptyCpuHistory EXCEPT !.error = "sar command not found. Install sysstat package."]
    ELSE IF w.helper = "timeout"
    THEN [EmptyCpuHistory EXCEPT !.error = "sar command timed out"]
    ELSE IF w.helper = "failed"
    THEN [EmptyCpuHistory EXCEPT !.error = "sar command failed: " \o SarStderr]
    ELSE LET start == [available |-> TRUE, date |-> Yesterday.date, average |-> EmptyAverage,
                       hourly_data |-> <<>>, raw_output |-> <<w.lines>>, error |-> None,
                       raised |-> FALSE]
             ch == SarLoop(start, w.lines, 1)
         IN  [available |-> ch.available, date |-> ch.date, average |-> ch.average,
              hourly_data |-> ch.hourly_data, raw_output |-> ch.raw_output,
              error |-> IF ch.raised
                        THEN "Error collecting previous day CPU data: "
                                 \o "could not convert string to float"
                        ELSE None]

(* ------------------------------- state --------------------------------- *)

VARIABLES
    connections,          \* the snapshot psutil.net_connections returns
    alive,                \* pids psutil.Process can still resolve
    pc,                   \* position of collect_all
    calls_left,           \* calls of collect_all the caller has still to make
    port_service_map,     \* self.port_service_map : port -> [service, pid]
    service_port_map,     \* self.service_port_map : service -> list of ports
    process_connections,  \* self.process_connections, in insertion order
    network,              \* return value of get_network_info
    app_comm,             \* return value of get_application_communication_map
    port_deps,            \* return value of get_port_dependencies
    returned,             \* the inventories collect_all has returned so far
    win_comm,             \* return value of WindowsServerInventory.get_application_communication
    win_port_deps,        \* return value of WindowsServerInventory.get_port_dependencies
    sysstat,              \* the host as the sysstat reader meets it
    perfmon,              \* the host as the Performance Monitor reader meets it
    cpu_history,          \* return value of get_previous_day_cpu_utilization
    port_query            \* a port handed to the well-known port resolvers, and their answers

vars == <<connections, alive, pc, calls_left, port_service_map, service_port_map,
          process_connections, network, app_comm, port_deps, returned,
          win_comm, win_port_deps, sysstat, perfmon, cpu_history,
          port_query>>

\* what the Windows program computes; untouched by the Linux program
winVars == <<win_comm, win_port_deps>>

\* what only the Linux program computes
linuxVars == <<port_service_map, service_port_map, app_comm, port_deps>>

\* what the collection pipeline never writes
otherVars == <<sysstat, perfmon, cpu_history, port_query>>

\* a dict with no keys
EmptyDict == [k \in {} |-> None]

\* d[k] = v, on a dict held as a function
DictSet(d, k, v) == [x \in (DOMAIN d) \cup {k} |-> IF x = k THEN v ELSE d[x]]

EmptyNetwork == [connections |-> <<>>, listening_ports |-> <<>>, established_connections |-> <<>>]

EmptyCommMap ==
    [process_to_service |-> EmptyDict, service_clients |-> EmptyDict,
     communication_matrix |-> <<>>]

EmptyPortDeps ==
    [listening_services |-> EmptyDict, port_usage_map |-> EmptyDict, dependency_graph |-> <<>>]

EmptyWinPortDeps == [listening_services |-> EmptyDict, port_to_process |-> EmptyDict]

(* ----------- get_previous_day_cpu_utilization (Performance Monitor) ----- *)

\* the header of the time column of a PDH CSV export
HeaderTimestamp ==
    <<"(", "P", "D", "H", "-", "C", "S", "V", " ", "4", ".", "0", ")", " ", "(", "U", "T",
      "C", ")", "(", "0", ")">>

\* the header of the total processor time counter
HeaderCpu ==
    <<"\\", "\\", "H", "\\", "P", "r", "o", "c", "e", "s", "s", "o", "r", "(", "_", "T",
      "o", "t", "a", "l", ")", "\\", "%", " ", "P", "r", "o", "c", "e", "s", "s", "o", "r",
      " ", "T", "i", "m", "e">>

\* the header of the available memory counter
HeaderMemory ==
    <<"\\", "\\", "H", "\\", "M", "e", "m", "o", "r", "y", "\\", "A", "v", "a", "i", "l",
      "a", "b", "l", "e", " ", "M", "B", "y", "t", "e", "s">>

TextTime == <<"T", "i", "m", "e">>

TextPdhCsv == <<"P", "D", "H", "-", "C", "S", "V">>

TextProcessorTime == <<"P", "r", "o", "c", "e", "s", "s", "o", "r", " ", "T", "i", "m", "e">>

TextTotal == <<"_", "T", "o", "t", "a", "l">>

TextAvailableMBytes == <<"A", "v", "a", "i", "l", "a", "b", "l", "e", " ", "M", "B", "y", "t", "e", "s">>

TextDiskTime == <<"D", "i", "s", "k", " ", "T", "i", "m", "e">>

\* the time cell of a data row
CellTime == <<"0", "0", ":", "0", "5">>

\* a processor time cell
CellCpu == <<"1", "2", ".", "5", "0">>

\* another processor time cell
CellCpuHigh == <<"7", "5", ".", "0", "0">>

\* the blank cell PDH writes for a counter without a value
CellBlank == <<" ">>

\* an available memory cell
CellMemory == <<"2", "0", "4", "8", ".", "0", "0">>

\* what relog prints on stderr when it fails
RelogStderr == "Error: Unable to open the specified log file."

\* str(e) of the TimeoutExpired of the relog run
RelogTimedOut == "Command 'relog' timed out after 60 seconds"

\* str(e) of the FileNotFoundError of a missing relog executable
RelogNotFound == "[WinError 2] The system cannot find the file specified"

\* the header rows of the files: time, processor and memory; time and processor; time
\* and memory; processor and memory without a time column
HeaderLayouts ==
    {<<HeaderTimestamp, HeaderCpu, HeaderMemory>>, <<HeaderTimestamp, HeaderCpu>>,
     <<HeaderTimestamp, HeaderMemory>>, <<HeaderCpu, HeaderMemory>>}

\* the data rows of the files: two full rows, a row with a blank processor cell, a row
\* with blank processor and memory cells, and a row cut after the time
DataRows ==
    {<<CellTime, CellCpu, CellMemory>>, <<CellTime, CellCpuHigh, CellMemory>>,
     <<CellTime, CellBlank, CellMemory>>, <<CellTime, CellBlank, CellBlank>>, <<CellTime>>}

\* the contents of a file as csv.reader returns them: no row at all, or a header row
\* and at most MaxRows data rows
CsvContents ==
    {<<>>} \cup UNION { { <<h>> \o d : h \in HeaderLayouts, d \in [1..n -> DataRows] }
                        : n \in 0..MaxRows }

\* a file with one full row
OneRowFile == <<<<HeaderTimestamp, HeaderCpu, HeaderMemory>>,
                <<CellTime, CellCpu, CellMemory>>>>

\* a file whose only column is the time: its header scan finds no index but 0
TimeOnlyFile == <<<<HeaderTimestamp>>, <<CellTime>>>>

\* a file of the log directory
LogFile(stem, ext, recent, rows) ==
    [stem |-> stem, ext |-> ext, recent |-> recent, rows |-> rows]

\* the directories with CSV files, in the order os.walk lists them; the last two hold a
\* file whose only data row is cut after the processor value
CsvDirectories ==
    { <<LogFile("a", "csv", TRUE, c)>> : c \in CsvContents }
    \cup { <<LogFile("a", "csv", TRUE, c), LogFile("b", "csv", TRUE, OneRowFile)>>
             : c \in CsvContents }
    \cup { <<LogFile("a", "csv", TRUE, OneRowFile), LogFile("b", "csv", TRUE, c)>>
             : c \in CsvContents }
    \cup { <<LogFile("a", "blg", TRUE, OneRowFile), LogFile("b", "csv", TRUE, c)>>
             : c \in CsvContents }
    \cup { <<LogFile("a", "csv", TRUE, TimeOnlyFile), LogFile("b", "csv", TRUE, c)>>
             : c \in CsvContents }
    \cup { <<LogFile("a", "csv", TRUE, c), LogFile("b", "csv", TRUE, TimeOnlyFile)>>
             : c \in CsvContents }
    \cup { <<LogFile("a", "csv", TRUE, <<<<HeaderTimestamp, HeaderCpu, HeaderMemory>>,
                                         <<CellTime, CellCpu>>>>)>>,
            <<LogFile("a", "csv", TRUE, <<<<HeaderTimestamp, HeaderCpu, HeaderMemory>>,
                                         <<CellTime, CellCpu>>>>),
              LogFile("b", "csv", TRUE, OneRowFile)>> }

\* the directories with binary logs only; rows is what relog exports from the file
BlgDirectories ==
    { <<LogFile("a", "blg", TRUE, c)>> : c \in CsvContents }
    \cup { <<LogFile("a", "blg", TRUE, <<>>), LogFile("b", "blg", TRUE, OneRowFile)>> }

\* the directories without a recent log
EmptyDirectories == { <<>>, <<LogFile("a", "csv", FALSE, OneRowFile)>> }

\* the host as the Performance Monitor reader meets it
PerfmonWorlds ==
    [dir_exists : {FALSE}, collector : {"absent", "stopped", "running"}, files : {<<>>},
     relog : {"ok"}, temp_csv : {FALSE}]
    \cup [dir_exists : {TRUE}, collector : {"running"},
          files : EmptyDirectories \cup CsvDirectories \cup BlgDirectories,
          relog : {"ok"}, temp_csv : {FALSE}]
    \cup [dir_exists : {TRUE}, collector : {"running"},
          files : {<<LogFile("a", "blg", TRUE, OneRowFile)>>},
          relog : {"ok_no_output", "failed", "failed_partial", "timeout", "timeout_partial",
                   "missing"},
          temp_csv : {FALSE}]

\* a host where Performance Monitor was never set up
NoPerfLogs ==
    [dir_exists |-> FALSE, collector |-> "absent", files |-> <<>>, relog |-> "ok",
     temp_csv |-> FALSE]

\* the elements of a list
Range(lst) == { lst[k] : k \in 1..Len(lst) }

\* sub in s
HasSub(s, sub) == Occurrences(s, sub) # {}

\* a column index that has not been found: None
NoIdx == -1

\* "not idx" of Python: None and 0 are both falsy
Falsy(idx) == idx = NoIdx \/ idx = 0

\* one iteration of "for i, header in enumerate(headers)"
ScanHeader(ix, i, header) ==
    [timestamp_idx |->
        IF Falsy(ix.timestamp_idx)
           /\ (HasSub(header, TextTime) \/ HasSub(header, TextPdhCsv))
        THEN i ELSE ix.timestamp_idx,
     cpu_idx |->
        IF Falsy(ix.cpu_idx) /\ HasSub(header, TextProcessorTime) /\ HasSub(header, TextTotal)
        THEN i ELSE ix.cpu_idx,
     memory_idx |->
        IF Falsy(ix.memory_idx) /\ HasSub(header, TextAvailableMBytes)
        THEN i ELSE ix.memory_idx,
     disk_idx |->
        IF Falsy(ix.disk_idx) /\ HasSub(header, TextDiskTime) /\ HasSub(header, TextTotal)
        THEN i ELSE ix.disk_idx]

RECURSIVE ScanHeaders(_, _, _)
\* the "Find column indices" loop over headers[k..]; Python's index is k - 1
ScanHeaders(ix, headers, k) ==
    IF k > Len(headers) THEN ix
    ELSE ScanHeaders(ScanHeader(ix, k - 1, headers[k]), headers, k + 1)

\* the column indices of a header row
ColumnsOf(headers) ==
    ScanHeaders([timestamp_idx |-> NoIdx, cpu_idx |-> NoIdx, memory_idx |-> NoIdx,
                 disk_idx |-> NoIdx], headers, 1)

\* filter(None, [timestamp_idx, cpu_idx, memory_idx, disk_idx]): None and 0 are dropped
TruthyIndices(ix) ==
    { v \in {ix.timestamp_idx, ix.cpu_idx, ix.memory_idx, ix.disk_idx} : ~Falsy(v) }

\* max(s) of a non-empty set of integers
SetMax(s) == CHOOSE v \in s : \A u \in s : u <= v

\* the cell of a row at a Python index, when the row is long enough
HasCell(row, idx) == idx # NoIdx /\ Len(row) > idx

\* a data_point with the metric stored under key when the cell parses as a float
WithMetric(dp, key, row, idx) ==
    IF HasCell(row, idx) /\ IsFloatText(row[idx + 1])
    THEN DictSet(dp, key, ParseFloat(row[idx + 1]))
    ELSE dp

\* the data_point built from one row of a CSV file
DataPoint(row, ix) ==
    LET stamped == IF HasCell(row, ix.timestamp_idx)
                   THEN DictSet(EmptyDict, "timestamp", row[ix.timestamp_idx + 1])
                   ELSE EmptyDict
    IN  WithMetric(WithMetric(WithMetric(stamped, "cpu_percent", row, ix.cpu_idx),
                              "memory_available_mb", row, ix.memory_idx),
                   "disk_percent", row, ix.disk_idx)

\* a test that keeps only the data points with a processor time
IsSample_CpuOnly(dp) == "cpu_percent" \in DOMAIN dp

\* data_point and ('cpu_percent' in data_point or 'memory_available_mb' in data_point)
IsSample(dp) == "cpu_percent" \in DOMAIN dp \/ "memory_available_mb" \in DOMAIN dp

\* one iteration of "for row in rows[1:]": a row not longer than the largest index is
\* skipped; acc holds cpu_values and hourly_data
CsvRow(acc, row, ix) ==
    IF Len(row) <= SetMax(TruthyIndices(ix)) THEN acc
    ELSE LET dp == DataPoint(row, ix)
         IN  [acc EXCEPT
                !.cpu_values = IF "cpu_percent" \in DOMAIN dp
                               THEN Append(@, dp["cpu_percent"]) ELSE @,
                !.hourly_data = IF IsSample(dp) THEN Append(@, dp) ELSE @]

RECURSIVE CsvRows(_, _, _, _)
\* "for row in rows[1:]" over rows[k..]
CsvRows(acc, rows, k, ix) ==
    IF k > Len(rows) THEN acc
    ELSE CsvRows(CsvRow(acc, rows[k], ix), rows, k + 1, ix)

\* a handler of a file's exception that also drops what the earlier files gave
CsvFile_DropOnError(acc, rows) ==
    IF Len(rows) < 2 THEN acc
    ELSE LET ix == ColumnsOf(rows[1])
         IN  IF TruthyIndices(ix) = {}
             THEN [cpu_values |-> <<>>, hourly_data |-> <<>>,
                   file_errors |-> Append(acc.file_errors, "max() arg is an empty sequence")]
             ELSE CsvRows(acc, rows, 2, ix)

\* the body of "for csv_file in csv_files" for one file: fewer than two rows are
\* passed over; max() of no index raises ValueError at the first data row, which the
\* handler of the file records in file_errors
CsvFile(acc, rows) ==
    IF Len(rows) < 2 THEN acc
    ELSE LET ix == ColumnsOf(rows[1])
         IN  IF TruthyIndices(ix) = {}
             THEN [acc EXCEPT !.file_errors =
                      Append(@, "max() arg is an empty sequence")]
             ELSE CsvRows(acc, rows, 2, ix)

RECURSIVE CsvFiles(_, _, _)
\* "for csv_file in csv_files" over files[k..]
CsvFiles(acc, files, k) ==
    IF k > Len(files) THEN acc
    ELSE CsvFiles(CsvFile(acc, files[k].rows), files, k + 1)

RECURSIVE SeqSum(_)
SeqSum(s) == IF s = <<>> THEN 0 ELSE s[1] + SeqSum(Tail(s))

\* round(sum(values) / len(values), 2) on values held in hundredths, halves rounded up
Mean(values) == (2 * SeqSum(values) + Len(values)) \div (2 * Len(values))

\* the average dict of the Performance Monitor reader
AverageOf(values) ==
    [total |-> Mean(values),
     min |-> CHOOSE v \in Range(values) : \A u \in Range(values) : v <= u,
     max |-> SetMax(Range(values))]

\* one iteration of "for key in first_row.keys()" for a key that is a header text: the
\* first header that matches a rule is kept
ScanKey(ix, i, header) ==
    [timestamp_idx |->
        IF ix.timestamp_idx = NoIdx
           /\ (HasSub(header, TextPdhCsv) \/ HasSub(header, TextTime))
        THEN i ELSE ix.timestamp_idx,
     cpu_idx |->
        IF ix.cpu_idx = NoIdx /\ HasSub(header, TextProcessorTime) /\ HasSub(header, TextTotal)
        THEN i ELSE ix.cpu_idx,
     memory_idx |->
        IF ix.memory_idx = NoIdx /\ HasSub(header, TextAvailableMBytes)
        THEN i ELSE ix.memory_idx,
     disk_idx |->
        IF ix.disk_idx = NoIdx /\ HasSub(header, TextDiskTime) /\ HasSub(header, TextTotal)
        THEN i ELSE ix.disk_idx]

RECURSIVE ScanKeys(_, _, _)
\* "for key in first_row.keys()" over the header texts fieldnames[k..]
ScanKeys(ix, fieldnames, k) ==
    IF k > Len(fieldnames) THEN ix
    ELSE ScanKeys(ScanKey(ix, k - 1, fieldnames[k]), fieldnames, k + 1)

\* the columns that the key scan of a DictReader export finds
KeysOf(fieldnames) ==
    ScanKeys([timestamp_idx |-> NoIdx, cpu_idx |-> NoIdx, memory_idx |-> NoIdx,
              disk_idx |-> NoIdx], fieldnames, 1)

\* the key scan raises TypeError: a first row longer than the header has its surplus
\* cells under the key None, and "'...' in None" is evaluated for every rule that no
\* header has matched
KeyScanRaises(fieldnames, first_row) ==
    /\ Len(first_row) > Len(fieldnames)
    /\ NoIdx \in {KeysOf(fieldnames).timestamp_idx, KeysOf(fieldnames).cpu_idx,
                  KeysOf(fieldnames).memory_idx, KeysOf(fieldnames).disk_idx}

\* key and row.get(key): the column was found and the row has a non-empty cell there
Got(row, idx) == HasCell(row, idx) /\ row[idx + 1] # <<>>

\* the data_point built from one row of the relog export
ExportPoint(row, ix) ==
    LET stamped == IF Got(row, ix.timestamp_idx)
                   THEN DictSet(EmptyDict, "timestamp", row[ix.timestamp_idx + 1])
                   ELSE EmptyDict
    IN  WithMetric(WithMetric(WithMetric(stamped, "cpu_percent", row, ix.cpu_idx),
                              "memory_available_mb", row, ix.memory_idx),
                   "disk_percent", row, ix.disk_idx)

RECURSIVE ExportRows(_, _, _, _)
\* "for row in rows" of the relog export over rows[k..]
ExportRows(acc, rows, k, ix) ==
    IF k > Len(rows) THEN acc
    ELSE LET dp == ExportPoint(rows[k], ix)
             next == [acc EXCEPT
                        !.cpu_values = IF "cpu_percent" \in DOMAIN dp
                                       THEN Append(@, dp["cpu_percent"]) ELSE @,
                        !.hourly_data = IF IsSample(dp) THEN Append(@, dp) ELSE @]
         IN  ExportRows(next, rows, k + 1, ix)

\* the parse of the relog export: csv.DictReader takes the first row as the field
\* names and yields the others as dicts
ExportParse(rows) ==
    LET none == [cpu_values |-> <<>>, hourly_data |-> <<>>, file_errors |-> <<>>,
                 raised |-> FALSE]
    IN  IF Len(rows) < 2 THEN none
        ELSE IF KeyScanRaises(rows[1], rows[2]) THEN [none EXCEPT !.raised = TRUE]
        ELSE ExportRows(none, rows, 2, KeysOf(rows[1]))

\* perf_log_dir
PerfLogDir == "C:\\PerfLogs\\Admin\\SystemInventoryCPU"

\* the cpu_history dict as the Performance Monitor reader creates it; a key the
\* code has not set is None, the empty list or NoCount
NoCount == -1

WinEmptyCpuHistory ==
    [available |-> FALSE, date |-> Yesterday.date, average |-> EmptyAverage,
     hourly_data |-> <<>>, raw_output |-> <<>>, error |-> None, note |-> None,
     log_files_found |-> <<>>, file_type |-> None, file_errors |-> <<>>,
     data_points |-> NoCount, total_samples |-> NoCount,
     sample_interval_minutes |-> NoCount, debug_info |-> EmptyDict,
     parse_error |-> None, relog_error |-> None, extraction_error |-> None]

\* modified within the last two days, with the extension
IsRecentCsv(f) == f.recent /\ f.ext = "csv"

IsRecentBlg(f) == f.recent /\ f.ext = "blg"

\* the paths of a list of files
PathsOf(files) == [k \in 1..Len(files) |-> [stem |-> files[k].stem, ext |-> files[k].ext]]

\* a block that counts every sample as a data point
WithSeries_CountsSamples(ch, acc) ==
    [ch EXCEPT !.available = TRUE,
               !.average = AverageOf(acc.cpu_values),
               !.data_points = Len(acc.hourly_data),
               !.hourly_data = acc.hourly_data,
               !.sample_interval_minutes = 5,
               !.total_samples = Len(acc.hourly_data)]

\* the "if cpu_values:" block that both branches share
WithSeries(ch, acc) ==
    [ch EXCEPT !.available = TRUE,
               !.average = AverageOf(acc.cpu_values),
               !.data_points = Len(acc.cpu_values),
               !.hourly_data = acc.hourly_data,
               !.sample_interval_minutes = 5,
               !.total_samples = Len(acc.hourly_data)]

\* "if not cpu_history['available']" after either branch
WithNote(ch) ==
    IF ch.available THEN ch
    ELSE [ch EXCEPT !.note =
             "Performance Monitor logs found but data extraction needs more time or configuration."]

\* the "if csv_files:" branch
CsvBranch(ch, csv_files) ==
    LET acc == CsvFiles([cpu_values |-> <<>>, hourly_data |-> <<>>, file_errors |-> <<>>],
                        csv_files, 1)
        seen == [ch EXCEPT !.file_errors = acc.file_errors]
    IN  IF acc.cpu_values # <<>> THEN WithSeries(seen, acc)
        ELSE [seen EXCEPT
                !.error = "CSV files found but no valid CPU data extracted",
                !.debug_info = [csv_files_processed |-> Len(csv_files),
                                total_rows_found |-> Len(acc.hourly_data),
                                suggestion |->
                                    "Run diagnose_csv.py to inspect the CSV file contents"]]

\* the "elif log_files:" branch: relog converts log_files[0]; w.relog is how the run
\* ends and whether it leaves the export file behind
BlgBranch(ch, log_files, w) ==
    LET acc == ExportParse(log_files[1].rows)
    IN  CASE w.relog = "ok" ->
                IF acc.raised
                THEN [history |-> [ch EXCEPT !.parse_error =
                                      "argument of type 'NoneType' is not iterable"],
                      temp_csv |-> TRUE]
                ELSE [history |-> IF acc.cpu_values # <<>> THEN WithSeries(ch, acc) ELSE ch,
                      temp_csv |-> FALSE]
          [] w.relog \in {"ok_no_output", "failed"} ->
                [history |-> [ch EXCEPT !.relog_error = RelogStderr], temp_csv |-> FALSE]
          [] w.relog = "failed_partial" ->
                [history |-> [ch EXCEPT !.relog_error = RelogStderr], temp_csv |-> TRUE]
          [] w.relog = "timeout" ->
                [history |-> [ch EXCEPT !.extraction_error = RelogTimedOut],
                 temp_csv |-> FALSE]
          [] w.relog = "timeout_partial" ->
                [history |-> [ch EXCEPT !.extraction_error = RelogTimedOut],
                 temp_csv |-> TRUE]
          [] w.relog = "missing" ->
                [history |-> [ch EXCEPT !.extraction_error = RelogNotFound],
                 temp_csv |-> FALSE]

\* the cpu_history that the Performance Monitor reader returns on host w, and whether
\* the export file of relog is left on disk
PerfmonCpuHistory(w) ==
    LET ch == WinEmptyCpuHistory
        csv_files == SelectSeq(w.files, IsRecentCsv)
        log_files == SelectSeq(w.files, IsRecentBlg)
        files_to_process == IF csv_files # <<>> THEN csv_files ELSE log_files
        found == [ch EXCEPT !.log_files_found = PathsOf(files_to_process),
                            !.file_type = IF csv_files # <<>> THEN "csv" ELSE "blg"]
        blg == BlgBranch(found, log_files, w)
    IN  IF ~w.dir_exists
        THEN [history |->
                IF w.collector = "absent"
                THEN [ch EXCEPT
                        !.error = "Performance Monitor data collector not configured",
                        !.note = "Run with --enable-perfmon to automatically configure CPU data collection"]
                ELSE [ch EXCEPT
                        !.error = "Performance Monitor log directory not found: " \o PerfLogDir,
                        !.note = IF w.collector = "running"
                                 THEN "Data collector is running but needs time to collect data (wait 24 hours)"
                                 ELSE "Data collector exists but is not running. Run with --enable-perfmon to start it."],
              temp_csv |-> w.temp_csv]
        ELSE IF files_to_process = <<>>
        THEN [history |->
                [ch EXCEPT
                   !.error = "No Performance Monitor logs (.csv or .blg) found in " \o PerfLogDir,
                   !.note = "Data collector may need to run for at least 24 hours to collect historical data."],
              temp_csv |-> w.temp_csv]
        ELSE IF csv_files # <<>>
        THEN [history |-> WithNote(CsvBranch(found, csv_files)), temp_csv |-> w.temp_csv]
        ELSE [history |-> WithNote(blg.history), temp_csv |-> blg.temp_csv]

(* ----------------------------- construction --------------------------- *)

\* no port has been handed to a resolver
NoQuery == [port |-> 0, linux |-> None, windows |-> None]

\* ServerInventory.__init__ on a host in some snapshot; the caller will call
\* collect_all n times
InitWith(n) ==
    /\ connections \in Snapshots
    /\ alive = Pids
    /\ pc = "start"
    /\ calls_left = n
    /\ port_service_map = EmptyDict
    /\ service_port_map = EmptyDict
    /\ process_connections = <<>>
    /\ network = EmptyNetwork
    /\ app_comm = EmptyCommMap
    /\ port_deps = EmptyPortDeps
    /\ returned = <<>>
    /\ win_comm = EmptyCommMap
    /\ win_port_deps = EmptyWinPortDeps
    /\ port_query = NoQuery
    /\ sysstat = NoSysstatFile
    /\ perfmon = NoPerfLogs

\* main(): one inventory object, one collect_all, on a host without a sysstat file
Init == InitWith(1) /\ cpu_history = SysstatCpuHistory(sysstat)

\* main() of the Windows program, on a host where Performance Monitor was never set up
InitWin == InitWith(1) /\ cpu_history = PerfmonCpuHistory(perfmon).history

\* a caller that keeps the object and calls collect_all again on the same host
InitRerun == InitWith(MaxRuns) /\ cpu_history = SysstatCpuHistory(sysstat)

\* the pids that own a socket of the snapshot
SnapshotPids == { connections[i].pid : i \in 1..Len(connections) }

\* a process of the snapshot exits: psutil.Process(pid) raises NoSuchProcess from now on
ProcessExit ==
    /\ Cardinality(Pids \ alive) < MaxExits
    /\ \E p \in alive \cap SnapshotPids : alive' = alive \ {p}
    /\ UNCHANGED <<connections, pc, calls_left, port_service_map, service_port_map,
                   process_connections, network, app_comm, port_deps, returned, winVars, otherVars>>

(* ------------------------- get_network_info ---------------------------- *)

\* the pids that are keys of self.process_connections
PCKeys(pcs) == { pcs[i].pid : i \in 1..Len(pcs) }

\* self.process_connections[pid].append(info): a new key goes last
PCAppend(pcs, pid, info) ==
    IF pid \in PCKeys(pcs)
    THEN [i \in 1..Len(pcs) |->
            IF pcs[i].pid = pid THEN [pcs[i] EXCEPT !.conns = Append(@, info)] ELSE pcs[i]]
    ELSE Append(pcs, [pid |-> pid, conns |-> <<info>>])

\* a lookup that never fails
Resolvable_Always(pid, live) == TRUE

\* psutil.Process(pid) succeeds, with name(), username() and cmdline()
Resolvable(pid, live) == pid \in live

\* the conn_info dict of one psutil connection
ConnInfo(c, live) ==
    [fd |-> c.fd,
     type |-> c.type,
     local_address |-> FormatAddr(c.lip, c.lport),
     remote_address |-> IF c.rip = NoAddr THEN NoAddr ELSE FormatAddr(c.rip, c.rport),
     status |-> c.status,
     pid |-> c.pid,
     process_name |-> IF Resolvable(c.pid, live) THEN ProcName(c.pid) ELSE None]

\* the service_info dict of a listening port
ServiceInfo(c, info) ==
    [port |-> c.lport,
     protocol |-> IF c.type = "SOCK_STREAM" THEN "TCP" ELSE "UDP",
     address |-> c.lip,
     pid |-> c.pid,
     process_name |-> info.process_name]

\* an iteration that indexes a listening port whether or not its owner has a name
NetStep_IndexUnnamed(st, c, live) ==
    LET info == ConnInfo(c, live)
        named == info.process_name # None
        fresh == c.status = "LISTEN" /\ c.lport \notin DOMAIN st.listening
    IN  [pcs |-> IF Resolvable(c.pid, live) THEN PCAppend(st.pcs, c.pid, info) ELSE st.pcs,
         listening |-> IF fresh THEN DictSet(st.listening, c.lport, ServiceInfo(c, info))
                       ELSE st.listening,
         psm |-> IF fresh
                 THEN DictSet(st.psm, c.lport, [service |-> info.process_name, pid |-> c.pid])
                 ELSE st.psm,
         spm |-> IF fresh /\ named
                 THEN DictSet(st.spm, info.process_name,
                              IF info.process_name \in DOMAIN st.spm
                              THEN Append(st.spm[info.process_name], c.lport)
                              ELSE <<c.lport>>)
                 ELSE st.spm,
         established |-> IF c.status = "ESTABLISHED" THEN Append(st.established, info)
                         ELSE st.established,
         conns |-> Append(st.conns, info)]

\* one iteration of "for conn in connections" of get_network_info
NetStep(st, c, live) ==
    LET info == ConnInfo(c, live)
        named == info.process_name # None
        fresh == c.status = "LISTEN" /\ c.lport \notin DOMAIN st.listening
    IN  [pcs |-> IF Resolvable(c.pid, live) THEN PCAppend(st.pcs, c.pid, info) ELSE st.pcs,
         listening |-> IF fresh THEN DictSet(st.listening, c.lport, ServiceInfo(c, info))
                       ELSE st.listening,
         psm |-> IF fresh /\ named
                 THEN DictSet(st.psm, c.lport, [service |-> info.process_name, pid |-> c.pid])
                 ELSE st.psm,
         spm |-> IF fresh /\ named
                 THEN DictSet(st.spm, info.process_name,
                              IF info.process_name \in DOMAIN st.spm
                              THEN Append(st.spm[info.process_name], c.lport)
                              ELSE <<c.lport>>)
                 ELSE st.spm,
         established |-> IF c.status = "ESTABLISHED" THEN Append(st.established, info)
                         ELSE st.established,
         conns |-> Append(st.conns, info)]

RECURSIVE NetLoop(_, _, _, _)
\* the loop of get_network_info over facts[i..]
NetLoop(st, facts, i, live) ==
    IF i > Len(facts) THEN st
    ELSE NetLoop(NetStep(st, facts[i], live), facts, i + 1, live)

RECURSIVE SortByPort(_)
\* sorted(listening_ports.values(), key=lambda x: x['port'])
SortByPort(listening) ==
    IF DOMAIN listening = {} THEN <<>>
    ELSE LET p == CHOOSE q \in DOMAIN listening : \A r \in DOMAIN listening : q <= r
         IN  <<listening[p]>> \o SortByPort([r \in (DOMAIN listening) \ {p} |-> listening[r]])

\* what get_network_info leaves behind when called on the object state (psm, spm, pcs)
NetworkInfoOf(psm, spm, pcs, facts, live) ==
    NetLoop([pcs |-> pcs, listening |-> EmptyDict, psm |-> psm, spm |-> spm,
             established |-> <<>>, conns |-> <<>>], facts, 1, live)

\* ServerInventory.get_network_info
GetNetworkInfo ==
    /\ pc = "start"
    /\ calls_left > 0
    /\ calls_left' = calls_left - 1
    /\ LET st == NetworkInfoOf(port_service_map, service_port_map, process_connections,
                               connections, alive)
       IN  /\ port_service_map' = st.psm
           /\ service_port_map' = st.spm
           /\ process_connections' = st.pcs
           /\ network' = [connections |-> st.conns,
                          listening_ports |-> SortByPort(st.listening),
                          established_connections |-> st.established]
    /\ pc' = "network"
    /\ UNCHANGED <<connections, alive, app_comm, port_deps, returned, winVars, otherVars>>

(* ----------------------- _identify_service_by_port ---------------------- *)

\* the common_ports table of ServerInventory._identify_service_by_port
common_ports ==
    (20 :> "FTP-DATA") @@ (21 :> "FTP") @@ (22 :> "SSH") @@ (23 :> "Telnet") @@
    (25 :> "SMTP") @@ (53 :> "DNS") @@ (80 :> "HTTP") @@ (110 :> "POP3") @@
    (143 :> "IMAP") @@ (443 :> "HTTPS") @@ (445 :> "SMB") @@
    (587 :> "SMTP-Submission") @@ (993 :> "IMAPS") @@ (995 :> "POP3S") @@
    (1433 :> "MS-SQL") @@ (1521 :> "Oracle-DB") @@ (3306 :> "MySQL") @@
    (5432 :> "PostgreSQL") @@ (5672 :> "AMQP/RabbitMQ") @@ (6379 :> "Redis") @@
    (8080 :> "HTTP-Alt") @@ (8443 :> "HTTPS-Alt") @@ (9200 :> "Elasticsearch") @@
    (27017 :> "MongoDB") @@ (11211 :> "Memcached") @@ (50000 :> "DB2")

\* a resolver that falls back to the label format of the Windows program
IdentifyServiceByPort_PortPrefix(port) ==
    IF port \in DOMAIN common_ports THEN common_ports[port]
    ELSE "Port-" \o ToString(port)

\* common_ports.get(int(port), f'Unknown-{port}')
IdentifyServiceByPort(port) ==
    IF port \in DOMAIN common_ports THEN common_ports[port]
    ELSE "Unknown-" \o ToString(port)

(* ------------------ get_application_communication_map ------------------- *)

\* the outcome of parsing an address: ok = FALSE stands for the ValueError
ParseFailed == [ok |-> FALSE, ip |-> NoAddr, port |-> 0]

\* remote_ip, remote_port = conn['remote_address'].split(':'); int(remote_port)
ParseRemoteComm(addr) ==
    LET parts == Split(addr, ":")
    IN  IF Len(parts) = 2 /\ IsIntText(parts[2])
        THEN [ok |-> TRUE, ip |-> parts[1], port |-> ParseInt(parts[2])]
        ELSE ParseFailed

Localhost == <<"l", "o", "c", "a", "l", "h", "o", "s", "t">>

Prefix127 == <<"1", "2", "7", ".">>

\* remote_ip in ['127.0.0.1', '::1', 'localhost'] or remote_ip.startswith('127.')
IsLocalComm(ip) == ip \in {Lo4, Lo6, Localhost} \/ StartsWith(ip, Prefix127)

\* self.port_service_map.get(remote_port, {}).get('service', f'unknown-port-{remote_port}')
TargetService(psm, port) ==
    IF port \in DOMAIN psm THEN psm[port].service
    ELSE "unknown-port-" \o ToString(port)

\* [c['client'] for c in comm_map['service_clients'][target_service]]
ClientNames(clients) == { clients[k].client : k \in 1..Len(clients) }

\* the "Track service clients" block: one entry per client process name
TrackServiceClient(sc, target, name, pid, port) ==
    LET have == IF target \in DOMAIN sc THEN sc[target] ELSE <<>>
    IN  DictSet(sc, target,
                IF name \in ClientNames(have) THEN have
                ELSE Append(have, [client |-> name, client_pid |-> pid, port |-> port]))

\* the body of "for conn in connections" for one ESTABLISHED connection that parsed
CommRecord(cm, psm, name, pid, conn, r) ==
    LET detail == [remote_host |-> r.ip,
                   remote_port |-> r.port,
                   local_port |-> Split(conn.local_address, ":")[2],
                   protocol |-> IF conn.type = "SOCK_STREAM" THEN "TCP" ELSE "UDP"]
        target == TargetService(psm, r.port)
        pts == cm.process_to_service
    IN  IF IsLocalComm(r.ip)
        THEN [cm EXCEPT
                !.process_to_service =
                    [pts EXCEPT ![name].local_connections =
                        Append(@, [detail |-> detail, target_service |-> target,
                                   connection_type |-> "local"])],
                !.service_clients = TrackServiceClient(@, target, name, pid, r.port),
                !.communication_matrix =
                    Append(@, [source_process |-> name, source_pid |-> pid,
                               target_service |-> target, target_host |-> NoAddr,
                               target_port |-> r.port, connection_type |-> "local",
                               protocol |-> detail.protocol, likely_service |-> None])]
        ELSE [cm EXCEPT
                !.process_to_service =
                    [pts EXCEPT ![name].external_connections =
                        Append(@, [detail |-> detail,
                                   service_name |-> IdentifyServiceByPort(r.port),
                                   connection_type |-> "external"])],
                !.communication_matrix =
                    Append(@, [source_process |-> name, source_pid |-> pid,
                               target_service |-> None, target_host |-> r.ip,
                               target_port |-> r.port, connection_type |-> "external",
                               protocol |-> detail.protocol,
                               likely_service |-> IdentifyServiceByPort(r.port)])]

RECURSIVE CommConns(_, _, _, _, _, _)
\* "for conn in connections" of one process; cm.raised records the ValueError
CommConns(cm, psm, name, pid, conns, j) ==
    IF j > Len(conns) \/ cm.raised THEN cm
    ELSE LET conn == conns[j]
             r == ParseRemoteComm(conn.remote_address)
         IN  IF conn.status = "ESTABLISHED" /\ conn.remote_address # NoAddr
             THEN IF r.ok
                  THEN CommConns(CommRecord(cm, psm, name, pid, conn, r),
                                 psm, name, pid, conns, j + 1)
                  ELSE [cm EXCEPT !.raised = TRUE]
             ELSE CommConns(cm, psm, name, pid, conns, j + 1)

RECURSIVE CommProcs(_, _, _, _, _)
\* "for pid, connections in self.process_connections.items()"; a process that
\* cannot be looked up is skipped, an exception of any other kind ends the loop
CommProcs(cm, psm, pcs, i, live) ==
    IF i > Len(pcs) \/ cm.raised THEN cm
    ELSE LET pid == pcs[i].pid
             name == ProcName(pid)
             pts == cm.process_to_service
             opened == IF name \in DOMAIN pts THEN cm
                       ELSE [cm EXCEPT !.process_to_service =
                                DictSet(pts, name, [pid |-> pid, local_connections |-> <<>>,
                                                    external_connections |-> <<>>])]
         IN  IF Resolvable(pid, live)
             THEN CommProcs(CommConns(opened, psm, name, pid, pcs[i].conns, 1),
                            psm, pcs, i + 1, live)
             ELSE CommProcs(cm, psm, pcs, i + 1, live)

\* the comm_map that get_application_communication_map returns
CommMapOf(psm, pcs, live) ==
    LET cm == CommProcs([process_to_service |-> EmptyDict, service_clients |-> EmptyDict,
                         communication_matrix |-> <<>>, raised |-> FALSE], psm, pcs, 1, live)
    IN  [process_to_service |-> cm.process_to_service,
         service_clients |-> cm.service_clients,
         communication_matrix |-> cm.communication_matrix]

\* a grapher whose ValueError is not caught and reaches collect_all
GetApplicationCommunicationMap_Uncaught ==
    /\ pc = "network"
    /\ LET cm == CommProcs([process_to_service |-> EmptyDict, service_clients |-> EmptyDict,
                            communication_matrix |-> <<>>, raised |-> FALSE],
                           port_service_map, process_connections, 1, alive)
       IN  IF cm.raised
           THEN pc' = "raised" /\ UNCHANGED app_comm
           ELSE /\ pc' = "comm"
                /\ app_comm' = CommMapOf(port_service_map, process_connections, alive)
    /\ UNCHANGED <<connections, alive, calls_left, port_service_map, service_port_map,
                   process_connections, network, port_deps, returned, winVars, otherVars>>

\* ServerInventory.get_application_communication_map
GetApplicationCommunicationMap ==
    /\ pc = "network"
    /\ app_comm' = CommMapOf(port_service_map, process_connections, alive)
    /\ pc' = "comm"
    /\ UNCHANGED <<connections, alive, calls_left, port_service_map, service_port_map,
                   process_connections, network, port_deps, returned, winVars, otherVars>>

(* ------------------------ get_port_dependencies ------------------------- *)

\* the "Debian / IPv6 safe parsing" of a remote_address string:
\* "[ip]:port" is split at the last "]:", anything else at the last ":"
ParseRemoteDeps(addr) ==
    LET parts == IF StartsWith(addr, <<"[">>)
                 THEN RSplit1(Tail(addr), <<"]", ":">>)
                 ELSE RSplit1(addr, <<":">>)
    IN  IF Len(parts) = 2 /\ IsIntText(parts[2])
        THEN [ok |-> TRUE, ip |-> parts[1], port |-> ParseInt(parts[2])]
        ELSE ParseFailed

\* a builder that takes only ::1 for the local host
IsLocalDeps_V6Only(ip) == ip = Lo6

\* remote_ip == '::1' or remote_ip.startswith('127.')
IsLocalDeps(ip) == ip = Lo6 \/ StartsWith(ip, Prefix127)

\* a builder that opens an entry for every port, indexed or not
ListeningServicesOf_AllPorts(psm) ==
    [port \in Ports |->
        [service |-> IF port \in DOMAIN psm THEN psm[port].service ELSE None,
         pid |-> IF port \in DOMAIN psm THEN psm[port].pid ELSE 0,
         well_known_service |-> IdentifyServiceByPort(port),
         clients |-> <<>>]]

\* "Map listening ports to services": one entry per key of self.port_service_map
ListeningServicesOf(psm) ==
    [port \in DOMAIN psm |->
        [service |-> psm[port].service,
         pid |-> psm[port].pid,
         well_known_service |-> IdentifyServiceByPort(port),
         clients |-> <<>>]]

\* x in lst, for a list
InList(x, lst) == \E k \in 1..Len(lst) : lst[k] = x

\* the block under "Local service dependency only" for one parsed connection
DepsRecord(pd, name, pid, r) ==
    LET client_info == [client_process |-> name, client_pid |-> pid]
        ls == pd.listening_services
    IN  IF IsLocalDeps(r.ip) /\ r.port \in DOMAIN ls
        THEN [pd EXCEPT
                !.listening_services =
                    [ls EXCEPT ![r.port].clients =
                        IF InList(client_info, @) THEN @ ELSE Append(@, client_info)],
                !.dependency_graph =
                    Append(@, [client_process |-> name,
                               client_pid |-> pid,
                               server_port |-> r.port,
                               server_service |-> ls[r.port].service,
                               dependency_type |-> "port-level"])]
        ELSE pd

RECURSIVE DepsConns(_, _, _, _, _)
\* "for conn in connections" of one process; pd.raised records an uncaught ValueError
DepsConns(pd, name, pid, conns, j) ==
    IF j > Len(conns) \/ pd.raised THEN pd
    ELSE LET conn == conns[j]
             r == ParseRemoteDeps(conn.remote_address)
         IN  IF conn.status # "ESTABLISHED" \/ conn.remote_address = NoAddr
             THEN DepsConns(pd, name, pid, conns, j + 1)
             ELSE IF r.ok
                  THEN DepsConns(DepsRecord(pd, name, pid, r), name, pid, conns, j + 1)
                  ELSE [pd EXCEPT !.raised = TRUE]

RECURSIVE DepsProcs(_, _, _, _)
\* "for pid, connections in self.process_connections.items()"
DepsProcs(pd, pcs, i, live) ==
    IF i > Len(pcs) \/ pd.raised THEN pd
    ELSE IF Resolvable(pcs[i].pid, live)
         THEN DepsProcs(DepsConns(pd, ProcName(pcs[i].pid), pcs[i].pid, pcs[i].conns, 1),
                        pcs, i + 1, live)
         ELSE DepsProcs(pd, pcs, i + 1, live)

\* [c['client_process'] for c in info['clients']]
ClientProcesses(clients) == [k \in 1..Len(clients) |-> clients[k].client_process]

\* "Create port usage summary"
PortUsageMapOf(ls) ==
    [port \in DOMAIN ls |->
        [service |-> ls[port].service,
         well_known_name |-> ls[port].well_known_service,
         client_count |-> Len(ls[port].clients),
         clients |-> ClientProcesses(ls[port].clients)]]

\* the port_deps that get_port_dependencies builds
PortDepsOf(psm, pcs, live) ==
    LET pd == DepsProcs([listening_services |-> ListeningServicesOf(psm),
                         dependency_graph |-> <<>>, raised |-> FALSE], pcs, 1, live)
    IN  [listening_services |-> pd.listening_services,
         port_usage_map |-> PortUsageMapOf(pd.listening_services),
         dependency_graph |-> pd.dependency_graph,
         raised |-> pd.raised]

\* a builder that empties process_connections once it has walked it
GetPortDependencies_Consuming ==
    /\ pc = "comm"
    /\ LET pd == PortDepsOf(port_service_map, process_connections, alive)
       IN  /\ pc' = "deps"
           /\ port_deps' = [listening_services |-> pd.listening_services,
                            port_usage_map |-> pd.port_usage_map,
                            dependency_graph |-> pd.dependency_graph]
    /\ process_connections' = <<>>
    /\ UNCHANGED <<connections, alive, calls_left, port_service_map, service_port_map,
                   network, app_comm, returned, winVars, otherVars>>

\* ServerInventory.get_port_dependencies; a ValueError of the parsing is not
\* caught here and leaves collect_all
GetPortDependencies ==
    /\ pc = "comm"
    /\ LET pd == PortDepsOf(port_service_map, process_connections, alive)
       IN  IF pd.raised
           THEN /\ pc' = "raised"
                /\ UNCHANGED port_deps
           ELSE /\ pc' = "deps"
                /\ port_deps' = [listening_services |-> pd.listening_services,
                                 port_usage_map |-> pd.port_usage_map,
                                 dependency_graph |-> pd.dependency_graph]
    /\ UNCHANGED <<connections, alive, calls_left, port_service_map, service_port_map,
                   process_connections, network, app_comm, returned, winVars, otherVars>>

(* ------------------------------ collect_all ----------------------------- *)

\* the sections of self.inventory that the pipeline fills
InventoryOf(cpu, net, comm, deps) ==
    [cpu_history_previous_day |-> cpu, network |-> net,
     application_communication |-> comm, port_dependencies |-> deps]

\* collect_all stores and returns the inventory; the object can be asked again
CollectAllReturn ==
    /\ pc = "deps"
    /\ returned' = Append(returned, InventoryOf(cpu_history, network, app_comm, port_deps))
    /\ pc' = "start"
    /\ UNCHANGED <<connections, alive, calls_left, port_service_map, service_port_map,
                   process_connections, network, app_comm, port_deps, winVars, otherVars>>

(* ------------------------ WindowsServerInventory ------------------------ *)

\* the well_known_ports table of WindowsServerInventory.identify_service_by_port
well_known_ports ==
    (20 :> "FTP-DATA") @@ (21 :> "FTP") @@ (22 :> "SSH") @@ (23 :> "Telnet") @@
    (25 :> "SMTP") @@ (53 :> "DNS") @@ (80 :> "HTTP") @@ (110 :> "POP3") @@
    (143 :> "IMAP") @@ (443 :> "HTTPS") @@ (445 :> "SMB") @@ (3306 :> "MySQL") @@
    (3389 :> "RDP") @@ (5432 :> "PostgreSQL") @@ (5900 :> "VNC") @@
    (6379 :> "Redis") @@ (8080 :> "HTTP-Alt") @@ (8443 :> "HTTPS-Alt") @@
    (27017 :> "MongoDB") @@ (1433 :> "MSSQL") @@ (1521 :> "Oracle")

\* well_known_ports.get(port, f'Port-{port}')
WinIdentifyServiceByPort(port) ==
    IF port \in DOMAIN well_known_ports THEN well_known_ports[port]
    ELSE "Port-" \o ToString(port)

\* the conn_info dict of the Windows get_network_info: no process lookup
WinConnInfo(c) ==
    [fd |-> c.fd,
     type |-> c.type,
     local_address |-> FormatAddr(c.lip, c.lport),
     remote_address |-> IF c.rip = NoAddr THEN NoAddr ELSE FormatAddr(c.rip, c.rport),
     status |-> c.status,
     pid |-> c.pid]

RECURSIVE WinNetLoop(_, _, _)
\* the connection loop of the Windows get_network_info over facts[i..]
WinNetLoop(st, facts, i) ==
    IF i > Len(facts) THEN st
    ELSE WinNetLoop([pcs |-> PCAppend(st.pcs, facts[i].pid, WinConnInfo(facts[i])),
                     conns |-> Append(st.conns, WinConnInfo(facts[i]))], facts, i + 1)

\* WindowsServerInventory.get_network_info
WinGetNetworkInfo ==
    /\ pc = "start"
    /\ calls_left > 0
    /\ calls_left' = calls_left - 1
    /\ LET st == WinNetLoop([pcs |-> process_connections, conns |-> <<>>], connections, 1)
       IN  /\ process_connections' = st.pcs
           /\ network' = [connections |-> st.conns, listening_ports |-> <<>>,
                          established_connections |-> <<>>]
    /\ pc' = "network"
    /\ UNCHANGED <<connections, alive, linuxVars, returned, winVars, otherVars>>

\* one iteration of "for conn in connections" of get_application_communication
WinCommStep(cm, c, live) ==
    LET name == ProcName(c.pid)
        local_addr == FormatAddr(c.lip, c.lport)
        remote_addr == FormatAddr(c.rip, c.rport)
        remote_service == WinIdentifyServiceByPort(c.rport)
        pts == cm.process_to_service
        opened == IF name \in DOMAIN pts THEN pts
                  ELSE DictSet(pts, name, [pid |-> c.pid, connects_to |-> <<>>])
        sc == cm.service_clients
    IN  IF c.rip = NoAddr \/ ~Resolvable(c.pid, live) THEN cm
        ELSE [communication_matrix |->
                 Append(cm.communication_matrix,
                        [source_process |-> name, source_pid |-> c.pid,
                         source_address |-> local_addr,
                         destination_address |-> remote_addr,
                         destination_port |-> c.rport,
                         destination_service |-> remote_service,
                         protocol |-> c.type, status |-> c.status]),
              process_to_service |->
                 [opened EXCEPT ![name].connects_to =
                     Append(@, [service |-> remote_service, address |-> remote_addr,
                                port |-> c.rport])],
              service_clients |->
                 DictSet(sc, remote_service,
                         Append(IF remote_service \in DOMAIN sc THEN sc[remote_service]
                                ELSE <<>>,
                                [client_process |-> name, client_pid |-> c.pid,
                                 local_address |-> local_addr]))]

RECURSIVE WinCommLoop(_, _, _, _)
WinCommLoop(cm, facts, i, live) ==
    IF i > Len(facts) THEN cm
    ELSE WinCommLoop(WinCommStep(cm, facts[i], live), facts, i + 1, live)

\* WindowsServerInventory.get_application_communication
WinGetApplicationCommunication ==
    /\ pc = "network"
    /\ win_comm' = WinCommLoop(EmptyCommMap, connections, 1, alive)
    /\ pc' = "comm"
    /\ UNCHANGED <<connections, alive, calls_left, linuxVars, process_connections,
                   network, returned, win_port_deps, otherVars>>

\* lst with x appended unless it is already there
AppendNew(lst, x) == IF InList(x, lst) THEN lst ELSE Append(lst, x)

\* one iteration of "for conn in connections" of the Windows get_port_dependencies
WinDepsStep(pd, c, live) ==
    LET ls == pd.listening_services
        opened == IF c.lport \in DOMAIN ls THEN ls
                  ELSE DictSet(ls, c.lport,
                               [port |-> c.lport,
                                well_known_service |-> WinIdentifyServiceByPort(c.lport),
                                processes |-> <<>>, clients |-> <<>>])
        proc_info == [pid |-> c.pid, name |-> ProcName(c.pid)]
        ptp == pd.port_to_process
        client_info == [address |-> FormatAddr(c.lip, c.lport), pid |-> c.pid,
                        process_name |-> IF Resolvable(c.pid, live) THEN ProcName(c.pid)
                                         ELSE None]
    IN  IF c.status = "LISTEN"
        THEN IF Resolvable(c.pid, live)
             THEN [listening_services |->
                       [opened EXCEPT ![c.lport].processes = AppendNew(@, proc_info)],
                   port_to_process |->
                       DictSet(ptp, c.lport,
                               AppendNew(IF c.lport \in DOMAIN ptp THEN ptp[c.lport] ELSE <<>>,
                                         proc_info))]
             ELSE [pd EXCEPT !.listening_services = opened]
        ELSE IF c.status = "ESTABLISHED" /\ c.rip # NoAddr /\ c.rport \in DOMAIN ls
             THEN [pd EXCEPT !.listening_services =
                       [ls EXCEPT ![c.rport].clients = AppendNew(@, client_info)]]
             ELSE pd

RECURSIVE WinDepsLoop(_, _, _, _)
WinDepsLoop(pd, facts, i, live) ==
    IF i > Len(facts) THEN pd
    ELSE WinDepsLoop(WinDepsStep(pd, facts[i], live), facts, i + 1, live)

\* WindowsServerInventory.get_port_dependencies
WinGetPortDependencies ==
    /\ pc = "comm"
    /\ win_port_deps' = WinDepsLoop(EmptyWinPortDeps, connections, 1, alive)
    /\ pc' = "deps"
    /\ UNCHANGED <<connections, alive, calls_left, linuxVars, process_connections,
                   network, returned, win_comm, otherVars>>

\* the Windows collect_all stores and returns the inventory
WinCollectAllReturn ==
    /\ pc = "deps"
    /\ returned' = Append(returned, InventoryOf(cpu_history, network, win_comm, win_port_deps))
    /\ pc' = "start"
    /\ UNCHANGED <<connections, alive, calls_left, linuxVars, process_connections,
                   network, winVars, otherVars>>

(* --------------- collect_all from the sysstat reader on ----------------- *)

\* the snapshots of at most one fact
LogSnapshots == { s \in Snapshots : Len(s) <= 1 }

\* collect_all is about to read yesterday's utilization on some host
InitLog ==
    /\ sysstat \in SysstatWorlds
    /\ perfmon = NoPerfLogs
    /\ cpu_history = EmptyCpuHistory
    /\ connections \in LogSnapshots
    /\ alive = Pids
    /\ pc = "begin"
    /\ calls_left = 1
    /\ port_service_map = EmptyDict
    /\ service_port_map = EmptyDict
    /\ process_connections = <<>>
    /\ network = EmptyNetwork
    /\ app_comm = EmptyCommMap
    /\ port_deps = EmptyPortDeps
    /\ returned = <<>>
    /\ win_comm = EmptyCommMap
    /\ win_port_deps = EmptyWinPortDeps
    /\ port_query = NoQuery

\* ServerInventory.get_previous_day_cpu_utilization
GetPreviousDayCpuUtilization ==
    /\ pc = "begin"
    /\ cpu_history' = SysstatCpuHistory(sysstat)
    /\ pc' = "start"
    /\ UNCHANGED <<connections, alive, calls_left, process_connections, network,
                   returned, linuxVars, winVars, sysstat, perfmon, port_query>>

(* ---------- collect_all from the Performance Monitor reader on ---------- *)

\* the snapshots of at most one fact, a listening socket
WinLogSnapshots ==
    { s \in LogSnapshots : \A i \in 1..Len(s) : s[i].status = "LISTEN" }

\* the Windows collect_all is about to read yesterday's utilization on some host
InitWinLog ==
    /\ perfmon \in PerfmonWorlds
    /\ sysstat = NoSysstatFile
    /\ cpu_history = WinEmptyCpuHistory
    /\ connections \in WinLogSnapshots
    /\ alive = Pids
    /\ pc = "begin"
    /\ calls_left = 1
    /\ port_service_map = EmptyDict
    /\ service_port_map = EmptyDict
    /\ process_connections = <<>>
    /\ network = EmptyNetwork
    /\ app_comm = EmptyCommMap
    /\ port_deps = EmptyPortDeps
    /\ returned = <<>>
    /\ win_comm = EmptyCommMap
    /\ win_port_deps = EmptyWinPortDeps
    /\ port_query = NoQuery

\* WindowsServerInventory.get_previous_day_cpu_utilization
WinGetPreviousDayCpuUtilization ==
    /\ pc = "begin"
    /\ cpu_history' = PerfmonCpuHistory(perfmon).history
    /\ perfmon' = [perfmon EXCEPT !.temp_csv = PerfmonCpuHistory(perfmon).temp_csv]
    /\ pc' = "start"
    /\ UNCHANGED <<connections, alive, calls_left, process_connections, network,
                   returned, linuxVars, winVars, sysstat, port_query>>

(* ------------- collect_all from the Performance Monitor setup on -------- *)

\* setup_performance_monitor on host w: the log directory is created, every .csv and
\* .blg file in it is removed, and the collector ends as created says: "running", or
\* "stopped" when logman start fails, or "absent" when logman create fails
SetupPerformanceMonitor(w, created) ==
    LET kept(f) == f.ext \notin {"csv", "blg"}
    IN  [w EXCEPT !.dir_exists = TRUE,
                  !.files = SelectSeq(w.files, kept),
                  !.collector = created]

\* the Windows collect_all starts on a host whose log directory may hold logs of
\* earlier days, with the collector absent, stopped or running
InitWinSetup ==
    /\ perfmon \in
          [dir_exists : {FALSE}, collector : {"absent", "stopped", "running"},
           files : {<<>>}, relog : {"ok"}, temp_csv : {FALSE}]
          \cup [dir_exists : {TRUE}, collector : {"absent", "stopped", "running"},
                files : EmptyDirectories
                        \cup {<<LogFile("a", "csv", TRUE, OneRowFile)>>,
                              <<LogFile("a", "blg", TRUE, OneRowFile)>>,
                              <<LogFile("a", "csv", TRUE, OneRowFile),
                                LogFile("b", "csv", TRUE, OneRowFile)>>},
                relog : {"ok"}, temp_csv : {FALSE}]
    /\ sysstat = NoSysstatFile
    /\ cpu_history = WinEmptyCpuHistory
    /\ connections \in WinLogSnapshots
    /\ alive = Pids
    /\ pc = "setup"
    /\ calls_left = 1
    /\ port_service_map = EmptyDict
    /\ service_port_map = EmptyDict
    /\ process_connections = <<>>
    /\ network = EmptyNetwork
    /\ app_comm = EmptyCommMap
    /\ port_deps = EmptyPortDeps
    /\ returned = <<>>
    /\ win_comm = EmptyCommMap
    /\ win_port_deps = EmptyWinPortDeps
    /\ port_query = NoQuery

\* the "Checking Performance Monitor status" block of collect_all: an administrator
\* sets up an absent collector and starts a stopped one; anyone else leaves it
PerfmonSetup ==
    /\ pc = "setup"
    /\ \E admin \in BOOLEAN, created \in {"running", "stopped", "absent"} :
          perfmon' =
            IF admin /\ perfmon.collector = "absent"
            THEN SetupPerformanceMonitor(perfmon, created)
            ELSE IF admin /\ perfmon.collector = "stopped" /\ created # "absent"
            THEN [perfmon EXCEPT !.collector = created]
            ELSE perfmon
    /\ pc' = "begin"
    /\ UNCHANGED <<connections, alive, calls_left, process_connections, network,
                   returned, linuxVars, winVars, sysstat, cpu_history, port_query>>

(* --------------- collect_all again on a host that has changed ----------- *)

\* a caller that keeps the object and calls collect_all again; the snapshots have at
\* most one fact
InitRescan ==
    /\ InitWith(MaxRuns)
    /\ connections \in LogSnapshots
    /\ cpu_history = SysstatCpuHistory(sysstat)

\* between two calls the sockets of the host change: the next
\* psutil.net_connections returns another snapshot
SocketsChange ==
    /\ pc = "start"
    /\ calls_left > 0
    /\ returned # <<>>
    /\ connections' \in LogSnapshots \ {connections}
    /\ UNCHANGED <<alive, pc, calls_left, port_service_map, service_port_map,
                   process_connections, network, app_comm, port_deps, returned, winVars,
                   otherVars>>

(* ---------------------- the port resolvers alone ------------------------ *)

\* ports of neither table
AbsentPorts == {0, 1, 9999, 65535}

\* the ports a caller hands to the resolvers
PortInputs == DOMAIN common_ports \cup DOMAIN well_known_ports \cup AbsentPorts

\* nothing collected, and some port about to be resolved on both platforms
InitPorts ==
    /\ port_query \in [port : PortInputs, linux : {None}, windows : {None}]
    /\ connections = <<>>
    /\ alive = Pids
    /\ pc = "start"
    /\ calls_left = 0
    /\ port_service_map = EmptyDict
    /\ service_port_map = EmptyDict
    /\ process_connections = <<>>
    /\ network = EmptyNetwork
    /\ app_comm = EmptyCommMap
    /\ port_deps = EmptyPortDeps
    /\ returned = <<>>
    /\ win_comm = EmptyCommMap
    /\ win_port_deps = EmptyWinPortDeps
    /\ sysstat = NoSysstatFile
    /\ perfmon = NoPerfLogs
    /\ cpu_history = SysstatCpuHistory(NoSysstatFile)

\* ServerInventory._identify_service_by_port(port)
ResolveLinux ==
    /\ port_query.linux = None
    /\ port_query' = [port_query EXCEPT !.linux = IdentifyServiceByPort(port_query.port)]
    /\ UNCHANGED <<connections, alive, pc, calls_left, process_connections, network,
                   returned, linuxVars, winVars, sysstat, perfmon, cpu_history>>

\* WindowsServerInventory.identify_service_by_port(port)
ResolveWindows ==
    /\ port_query.windows = None
    /\ port_query' = [port_query EXCEPT !.windows = WinIdentifyServiceByPort(port_query.port)]
    /\ UNCHANGED <<connections, alive, pc, calls_left, process_connections, network,
                   returned, linuxVars, winVars, sysstat, perfmon, cpu_history>>

\* one collect_all, while processes of the snapshot may exit
Next ==
    \/ ProcessExit
    \/ GetNetworkInfo
    \/ GetApplicationCommunicationMap
    \/ GetPortDependencies
    \/ CollectAllReturn

Spec == Init /\ [][Next]_vars

\* repeated collect_all on one object over an unchanged fact set
NextRerun ==
    \/ GetNetworkInfo
    \/ GetApplicationCommunicationMap
    \/ GetPortDependencies
    \/ CollectAllReturn

SpecRerun == InitRerun /\ [][NextRerun]_vars

\* collect_all called again on one object while the host changes between the calls
NextRescan ==
    \/ SocketsChange
    \/ GetNetworkInfo
    \/ GetApplicationCommunicationMap
    \/ GetPortDependencies
    \/ CollectAllReturn

SpecRescan == InitRescan /\ [][NextRescan]_vars

\* the Windows program: one collect_all, while processes of the snapshot may exit
NextWin ==
    \/ ProcessExit
    \/ WinGetNetworkInfo
    \/ WinGetApplicationCommunication
    \/ WinGetPortDependencies
    \/ WinCollectAllReturn

SpecWin == InitWin /\ [][NextWin]_vars

\* the two resolvers applied to one port, in either order
NextPorts ==
    \/ ResolveLinux
    \/ ResolveWindows

SpecPorts == InitPorts /\ [][NextPorts]_vars

\* one collect_all from the utilization history on, while the owner of a socket may exit
NextLog ==
    \/ ProcessExit
    \/ GetPreviousDayCpuUtilization
    \/ GetNetworkInfo
    \/ GetApplicationCommunicationMap
    \/ GetPortDependencies
    \/ CollectAllReturn

SpecLog == InitLog /\ [][NextLog]_vars

\* one Windows collect_all from the utilization history on
NextWinLog ==
    \/ WinGetPreviousDayCpuUtilization
    \/ WinGetNetworkInfo
    \/ WinGetApplicationCommunication
    \/ WinGetPortDependencies
    \/ WinCollectAllReturn

SpecWinLog == InitWinLog /\ [][NextWinLog]_vars

\* the Windows collect_all from its first statement on
NextWinSetup ==
    \/ PerfmonSetup
    \/ WinGetPreviousDayCpuUtilization
    \/ WinGetNetworkInfo
    \/ WinGetApplicationCommunication
    \/ WinGetPortDependencies
    \/ WinCollectAllReturn

SpecWinSetup == InitWinSetup /\ [][NextWinSetup]_vars

(* ======================================================================= *)
(*                               properties                                *)
(* ======================================================================= *)

\* positions of the snapshot holding a fact of the given status
FactsWithStatus(st) == { i \in 1..Len(connections) : connections[i].status = st }

\* the remote ip is in 127.0.0.0/8 or is ::1 (section 4.2 of the specification)
IsLoopback(ip) ==
    \/ ip = Lo6
    \/ LET octets == Split(ip, ".") IN Len(octets) = 4 /\ octets[1] = <<"1", "2", "7">>

\* how many positions of a list satisfy a test
CountIn(lst, Test(_)) == Cardinality({ k \in 1..Len(lst) : Test(lst[k]) })

\* get_port_dependencies has returned in the current collect_all
DepsDone == pc = "deps"

\* C1: in a snapshot with one LISTEN fact on port P owned by a resolvable process
\* S and one ESTABLISHED fact to 127.0.0.1:P owned by a resolvable process C,
\* get_network_info followed by get_port_dependencies yields
\* listening_services[P].service = name(S), a dependency_graph of exactly the one
\* edge (name(C), C, P, name(S)), and port_usage_map[P].client_count = 1.
C1_ListenerAndClient ==
    \A l \in FactsWithStatus("LISTEN"), e \in FactsWithStatus("ESTABLISHED") :
        LET L == connections[l]
            E == connections[e]
        IN  ( /\ DepsDone
              /\ FactsWithStatus("LISTEN") = {l}
              /\ FactsWithStatus("ESTABLISHED") = {e}
              /\ E.rip = Lo4 /\ E.rport = L.lport
              /\ L.pid \in alive /\ E.pid \in alive )
            =>
            ( /\ L.lport \in DOMAIN port_deps.listening_services
              /\ port_deps.listening_services[L.lport].service = ProcName(L.pid)
              /\ Len(port_deps.dependency_graph) = 1
              /\ port_deps.dependency_graph[1].client_process = ProcName(E.pid)
              /\ port_deps.dependency_graph[1].client_pid = E.pid
              /\ port_deps.dependency_graph[1].server_port = L.lport
              /\ port_deps.dependency_graph[1].server_service = ProcName(L.pid)
              /\ port_deps.port_usage_map[L.lport].client_count = 1 )

\* C1's case is reached: the pipeline has run on such a snapshot, the client
\* fact enumerated before the listener's
C1_Witness ==
    /\ DepsDone
    /\ Len(connections) = 2
    /\ connections[1].status = "ESTABLISHED" /\ connections[2].status = "LISTEN"
    /\ connections[1].rip = Lo4 /\ connections[1].rport = connections[2].lport
    /\ {connections[1].pid, connections[2].pid} \subseteq alive
    /\ Len(port_deps.dependency_graph) = 1

\* C2: no two edges of dependency_graph share (client_process, server_port)
C2_EdgesDeduplicated ==
    \A i, j \in 1..Len(port_deps.dependency_graph) :
        LET a == port_deps.dependency_graph[i]
            b == port_deps.dependency_graph[j]
        IN  (a.client_process = b.client_process /\ a.server_port = b.server_port) => i = j

\* a list holds no two entries with the same key
DistinctBy(lst, Key(_)) == \A i, j \in 1..Len(lst) : Key(lst[i]) = Key(lst[j]) => i = j

\* C3: in the service_clients view of the communication grapher (on either
\* platform), the client list of each target service holds at most one entry
\* per client process name
C3_OneClientEntryPerName ==
    /\ \A svc \in DOMAIN app_comm.service_clients :
          LET Name(c) == c.client IN DistinctBy(app_comm.service_clients[svc], Name)
    /\ \A svc \in DOMAIN win_comm.service_clients :
          LET Name(c) == c.client_process IN DistinctBy(win_comm.service_clients[svc], Name)

\* C4: two distinct pids with one process name, each holding an ESTABLISHED
\* loopback connection to the same indexed port, give a single DependencyEdge
\* and a single client entry for that port
C4_SameNamePidsCollapse ==
    \A a, b \in FactsWithStatus("ESTABLISHED") :
        LET A == connections[a]
            B == connections[b]
            Mine(x) == x.client_process = ProcName(A.pid)
            MyEdge(x) == x.client_process = ProcName(A.pid) /\ x.server_port = A.rport
        IN  ( /\ DepsDone
              /\ A.pid # B.pid /\ ProcName(A.pid) = ProcName(B.pid)
              /\ {A.pid, B.pid} \subseteq alive
              /\ IsLoopback(A.rip) /\ IsLoopback(B.rip)
              /\ A.rport = B.rport
              /\ A.rport \in DOMAIN port_service_map )
            =>
            ( /\ CountIn(port_deps.dependency_graph, MyEdge) = 1
              /\ CountIn(port_deps.listening_services[A.rport].clients, Mine) = 1 )


\* C5: for every port of port_usage_map, client_count is the number of distinct
\* edges of dependency_graph with that server_port, and clients names no
\* process twice
C5_ClientCountAndNames ==
    DepsDone =>
        \A port \in DOMAIN port_deps.port_usage_map :
            LET u == port_deps.port_usage_map[port]
                Same(n) == n
            IN  /\ u.client_count =
                       Cardinality({ e \in Range(port_deps.dependency_graph) :
                                       e.server_port = port })
                /\ DistinctBy(u.clients, Same)

\* C6: every edge of dependency_graph has a server_port that is a key of
\* port_service_map; a loopback connection to a port outside the index gives
\* no edge
C6_EdgesOnlyToIndexedPorts ==
    \A k \in 1..Len(port_deps.dependency_graph) :
        port_deps.dependency_graph[k].server_port \in DOMAIN port_service_map

\* C6's case is reached: the builder has produced an edge while a resolvable
\* process also holds a loopback connection to a port outside the index
C6_Witness ==
    /\ DepsDone
    /\ port_deps.dependency_graph # <<>>
    /\ \E e \in FactsWithStatus("ESTABLISHED") :
          /\ IsLoopback(connections[e].rip)
          /\ connections[e].pid \in alive
          /\ connections[e].rport \notin DOMAIN port_service_map

\* two lists hold the same entries the same number of times
SameMultiset(s, t) ==
    /\ Len(s) = Len(t)
    /\ \A x \in Range(s) :
          Cardinality({ k \in 1..Len(s) : s[k] = x }) =
          Cardinality({ k \in 1..Len(t) : t[k] = x })

\* two dicts of lists have the same keys and, per key, the same multiset
SameDictOfLists(d, e) ==
    /\ DOMAIN d = DOMAIN e
    /\ \A k \in DOMAIN d : SameMultiset(d[k], e[k])

\* C7: a second collect_all on an identical fact set returns what the first
\* returned, up to list ordering
C7_RerunIdempotent ==
    Len(returned) >= 2 =>
        LET first == returned[1]
            second == returned[2]
        IN  /\ SameMultiset(first.network.listening_ports, second.network.listening_ports)
            /\ SameMultiset(first.application_communication.communication_matrix,
                            second.application_communication.communication_matrix)
            /\ SameDictOfLists(first.application_communication.service_clients,
                               second.application_communication.service_clients)
            /\ SameMultiset(first.port_dependencies.dependency_graph,
                            second.port_dependencies.dependency_graph)
            /\ first.port_dependencies.port_usage_map =
               second.port_dependencies.port_usage_map

\* the orderings of the snapshot
Orderings ==
    { [i \in 1..Len(connections) |-> connections[f[i]]] :
        f \in { g \in [1..Len(connections) -> 1..Len(connections)] :
                  \A i, j \in 1..Len(connections) : g[i] = g[j] => i = j } }

\* C8: the port index that get_network_info builds is the same for every
\* enumeration order of the snapshot's facts
C8_IndexIgnoresEnumerationOrder ==
    (pc = "network" /\ alive = Pids) =>
        \A facts \in Orderings :
            NetworkInfoOf(EmptyDict, EmptyDict, <<>>, facts, alive).psm = port_service_map

\* every conn_info that get_network_info stored, with its remote address
StoredRemotes ==
    { c \in UNION { Range(process_connections[i].conns) : i \in 1..Len(process_connections) } :
        c.remote_address # NoAddr }

\* C9: the grapher and the dependency builder both parse every remote address
\* into the (ip, port) pair of the connection
C9_AddressesNormalize ==
    \A c \in StoredRemotes :
        LET want == [ok |-> TRUE, ip |-> connections[c.fd].rip, port |-> connections[c.fd].rport]
        IN  /\ ParseRemoteComm(c.remote_address) = want
            /\ ParseRemoteDeps(c.remote_address) = want

\* C10: the grapher records an ESTABLISHED connection of a resolvable process
\* as local iff its remote ip is a loopback address and as external otherwise,
\* and the dependency builder classifies every address the same way
C10_LoopbackClassification ==
    pc = "comm" =>
        /\ \A e \in FactsWithStatus("ESTABLISHED") :
              LET E == connections[e]
                  Entry(kind) ==
                      \E k \in 1..Len(app_comm.communication_matrix) :
                          LET m == app_comm.communication_matrix[k]
                          IN  /\ m.source_pid = E.pid
                              /\ m.target_port = E.rport
                              /\ m.connection_type = kind
                              /\ kind = "external" => m.target_host = E.rip
              IN  E.pid \in alive =>
                      IF IsLoopback(E.rip) THEN Entry("local") ELSE Entry("external")
        /\ \A c \in StoredRemotes :
              IsLocalComm(connections[c.fd].rip) <=> IsLocalDeps(connections[c.fd].rip)

\* C11: a port of the platform's table resolves to its table label, any other port P
\* resolves to "Unknown-P" on Linux and to "Port-P" on Windows
C11_WellKnownPortResolution ==
    LET p == port_query.port
    IN  /\ port_query.linux # None =>
              port_query.linux =
                  IF p \in DOMAIN common_ports THEN common_ports[p]
                  ELSE "Unknown-" \o ToString(p)
        /\ port_query.windows # None =>
              port_query.windows =
                  IF p \in DOMAIN well_known_ports THEN well_known_ports[p]
                  ELSE "Port-" \o ToString(p)

\* port 9999, of neither table, has been resolved on both platforms
C11_Witness ==
    /\ port_query.port = 9999
    /\ port_query.linux = "Unknown-9999"
    /\ port_query.windows = "Port-9999"

\* the index of the first LISTEN fact on port p in the snapshot, 0 when there is none
FirstListener(p) ==
    LET idx == { i \in 1..Len(connections) :
                    connections[i].status = "LISTEN" /\ connections[i].lport = p }
    IN  IF idx = {} THEN 0 ELSE CHOOSE i \in idx : \A j \in idx : i <= j

\* get_network_info has run and the lookup failed for the fact at index i
LookupFailedAt(i) ==
    /\ pc # "start"
    /\ i \in 1..Len(network.connections)
    /\ network.connections[i].process_name = None

\* the entries of network_info['listening_ports'] for port p
ListeningEntries(p) ==
    { i \in 1..Len(network.listening_ports) : network.listening_ports[i].port = p }

\* port p is in some list of self.service_port_map
InSomeServiceList(p) == \E n \in DOMAIN service_port_map : InList(p, service_port_map[n])

\* C12 (amended): when the lookup fails for the first listening socket enumerated on
\* port P, P takes its slot in network_info['listening_ports'] with a null process name,
\* is in no service_port_map list, and is left out of port_service_map and of the
\* listening_services of get_port_dependencies
C12_UnresolvedListenerLeftOut ==
    \A p \in Ports :
        LookupFailedAt(FirstListener(p)) =>
            /\ Cardinality(ListeningEntries(p)) = 1
            /\ \A i \in ListeningEntries(p) :
                  /\ network.listening_ports[i].process_name = None
                  /\ network.listening_ports[i].pid = connections[FirstListener(p)].pid
            /\ ~InSomeServiceList(p)
            /\ p \notin DOMAIN port_service_map
            /\ pc = "deps" => p \notin DOMAIN port_deps.listening_services

\* the first listener of 5432 could not be looked up, a second one could, and the
\* dependency builder has run
C12_Witness ==
    /\ pc = "deps"
    /\ Len(connections) >= 2
    /\ connections[1].status = "LISTEN" /\ connections[1].lport = 5432
    /\ connections[2].status = "LISTEN" /\ connections[2].lport = 5432
    /\ LookupFailedAt(1)
    /\ ~LookupFailedAt(2)

\* C12 as stated: when the lookup fails for a listening socket on port P, P is in the
\* port index with a null service, in no service_port_map list, and in listening_services
C12_IndexedWithNullService ==
    \A i \in 1..Len(connections) :
        (connections[i].status = "LISTEN" /\ LookupFailedAt(i)) =>
            LET p == connections[i].lport
            IN  /\ p \in DOMAIN port_service_map
                /\ port_service_map[p].service = None
                /\ ~InSomeServiceList(p)
                /\ pc = "deps" => p \in DOMAIN port_deps.listening_services

\* get_application_communication_map has returned in the current collect_all
CommDone == pc \in {"comm", "deps"}

\* the ESTABLISHED loopback facts of the snapshot owned by pid that go to port
LoopbackFactsOf(pid, port) ==
    { i \in FactsWithStatus("ESTABLISHED") :
        /\ connections[i].pid = pid
        /\ connections[i].rport = port
        /\ IsLoopback(connections[i].rip) }

\* C18: every ESTABLISHED loopback connection whose owner can be looked up is recorded
\* exactly once in communication_matrix and exactly once in the local_connections of
\* its source process, with target_service the indexed service of the remote port or
\* "unknown-port-<port>" when the port is not indexed
C18_LoopbackRecordedOnce ==
    CommDone =>
        \A i \in FactsWithStatus("ESTABLISHED") :
            LET c == connections[i]
                name == ProcName(c.pid)
                expected == IF c.rport \in DOMAIN port_service_map
                            THEN port_service_map[c.rport].service
                            ELSE "unknown-port-" \o ToString(c.rport)
                IsDetail(e) == /\ e.detail.local_port = FormatInt(c.lport)
                               /\ e.detail.remote_port = c.rport
                               /\ e.target_service = expected
                               /\ e.connection_type = "local"
                IsEntry(m) == /\ m.source_pid = c.pid
                              /\ m.target_port = c.rport
                              /\ m.connection_type = "local"
                              /\ m.target_service = expected
            IN  (IsLoopback(c.rip) /\ c.pid \in alive) =>
                    /\ name \in DOMAIN app_comm.process_to_service
                    /\ CountIn(app_comm.process_to_service[name].local_connections,
                               IsDetail) = 1
                    /\ CountIn(app_comm.communication_matrix, IsEntry)
                          = Cardinality(LoopbackFactsOf(c.pid, c.rport))

\* C19: every ESTABLISHED connection to a non-loopback remote ip whose owner can be
\* looked up is recorded in communication_matrix and in the connection list of its
\* source process with the label of the well-known port table, and adds no entry to
\* service_clients (checked on the Windows program)
C19_ExternalFromTableOnly ==
    CommDone =>
        \A i \in FactsWithStatus("ESTABLISHED") :
            LET c == connections[i]
                name == ProcName(c.pid)
                local_addr == FormatAddr(c.lip, c.lport)
                label == IF c.rport \in DOMAIN well_known_ports
                         THEN well_known_ports[c.rport]
                         ELSE "Port-" \o ToString(c.rport)
                IsEntry(m) == /\ m.source_address = local_addr
                              /\ m.source_pid = c.pid
                              /\ m.destination_service = label
                IsTarget(t) == /\ t.address = FormatAddr(c.rip, c.rport)
                               /\ t.service = label
                IsClient(e) == e.local_address = local_addr
            IN  (c.rip # NoAddr /\ ~IsLoopback(c.rip) /\ c.pid \in alive) =>
                    /\ CountIn(win_comm.communication_matrix, IsEntry) = 1
                    /\ name \in DOMAIN win_comm.process_to_service
                    /\ CountIn(win_comm.process_to_service[name].connects_to, IsTarget) >= 1
                    /\ \A s \in DOMAIN win_comm.service_clients :
                          CountIn(win_comm.service_clients[s], IsClient) = 0

\* the pids of the snapshot that cannot be looked up now
Vanished == SnapshotPids \ alive

\* the facts of the snapshot owned by pid
FactsOf(pid) == { i \in 1..Len(connections) : connections[i].pid = pid }

\* no connection list of a process_to_service entry holds the connection of fact i
NotInProcessToService(pts, i) ==
    LET IsFact(e) == e.detail.local_port = FormatInt(connections[i].lport)
    IN  \A n \in DOMAIN pts :
            /\ CountIn(pts[n].local_connections, IsFact) = 0
            /\ CountIn(pts[n].external_connections, IsFact) = 0

\* get_network_info ran while some owners could not be looked up
C20_NetworkStep ==
    (pc = "start" /\ pc' = "network") =>
        \A pid \in Vanished :
            /\ pid \notin PCKeys(process_connections')
            /\ \A i \in FactsOf(pid) :
                  LET IsFact(e) == e.fd = connections[i].fd /\ e.pid = pid
                  IN  /\ CountIn(network'.connections, IsFact) = 1
                      /\ network'.connections[i].process_name = None
                      /\ CountIn(network'.established_connections, IsFact)
                            = IF connections[i].status = "ESTABLISHED" THEN 1 ELSE 0

\* get_application_communication_map ran while some owners could not be looked up
C20_CommStep ==
    (pc = "network" /\ pc' = "comm") =>
        \A pid \in Vanished :
            LET IsSource(m) == m.source_pid = pid
                IsClient(e) == e.client_pid = pid
            IN  /\ CountIn(app_comm'.communication_matrix, IsSource) = 0
                /\ \A s \in DOMAIN app_comm'.service_clients :
                      CountIn(app_comm'.service_clients[s], IsClient) = 0
                /\ \A n \in DOMAIN app_comm'.process_to_service :
                      app_comm'.process_to_service[n].pid # pid
                /\ \A i \in FactsOf(pid) :
                      NotInProcessToService(app_comm'.process_to_service, i)

\* get_port_dependencies ran while some owners could not be looked up
C20_DepsStep ==
    (pc = "comm" /\ pc' \in {"deps", "raised"}) =>
        /\ pc' = "deps"
        /\ \A pid \in Vanished :
              LET IsClient(e) == e.client_pid = pid
              IN  /\ CountIn(port_deps'.dependency_graph, IsClient) = 0
                  /\ \A p \in DOMAIN port_deps'.listening_services :
                        CountIn(port_deps'.listening_services[p].clients, IsClient) = 0

\* C20: a connection whose owner cannot be looked up when a stage runs is left out of
\* every per-process view that stage builds (process_connections, process_to_service,
\* service_clients, communication_matrix, dependency_graph) without an exception, and
\* is still in the raw connection list and, when ESTABLISHED, among the established
\* connections
C20_VanishedOwnerLeftOut ==
    [][C20_NetworkStep /\ C20_CommStep /\ C20_DepsStep]_vars

\* a client of port 5432 had exited before get_network_info, another client had not,
\* and all three stages have run
C20_Witness ==
    /\ pc = "deps"
    /\ \E i, j \in FactsWithStatus("ESTABLISHED") :
          /\ connections[i].pid \in Vanished
          /\ network.connections[i].process_name = None
          /\ connections[j].pid \in alive
          /\ connections[i].rport = 5432 /\ connections[j].rport = 5432
          /\ IsLoopback(connections[i].rip) /\ connections[j].rip = Lo4
    /\ 5432 \in DOMAIN port_deps.listening_services
    /\ Len(port_deps.dependency_graph) >= 1

\* get_previous_day_cpu_utilization has returned in the current collect_all
HistoryDone == pc # "begin"

\* C13: the series that get_previous_day_cpu_utilization returns is either available
\* with a non-empty sample sequence, or unavailable with a non-empty error string
C13_AvailableOrError ==
    HistoryDone =>
        /\ cpu_history.available => cpu_history.hourly_data # <<>>
        /\ ~cpu_history.available => cpu_history.error \notin {None, ""}

\* the relog run timed out or exited nonzero
RelogFailed == perfmon.relog \in {"failed", "failed_partial", "timeout", "timeout_partial"}

\* the sections of the inventory that collect_all returned at its k-th call
SectionsOf(k) == DOMAIN returned[k]

\* C14: when the helper (relog here) exceeds its timeout or exits nonzero, the reader
\* returns an unavailable series whose error field is non-empty, and collect_all still
\* returns the complete structure
C14_HelperFailureReported ==
    (HistoryDone /\ RelogFailed) =>
        /\ ~cpu_history.available
        /\ cpu_history.error \notin {None, ""}
        /\ pc # "raised"
        /\ \A k \in 1..Len(returned) :
              /\ SectionsOf(k) = {"cpu_history_previous_day", "network",
                                  "application_communication", "port_dependencies"}
              /\ returned[k].cpu_history_previous_day = cpu_history

\* C15: an absent sysstat file yields an unavailable series whose error names the file
\* as not found; a present file from which no row parses yields an unavailable series
\* with a different error string
C15_AbsentVersusEmpty ==
    LET not_found == "Sysstat file not found: " \o SaFilePath(sysstat.rpm)
    IN  HistoryDone =>
            /\ ~sysstat.exists =>
                  ~cpu_history.available /\ cpu_history.error = not_found
            /\ (sysstat.exists /\ sysstat.helper = "ok" /\ cpu_history.hourly_data = <<>>) =>
                  /\ ~cpu_history.available
                  /\ cpu_history.error \notin {None, "", not_found}

\* the log directory holds exactly one recent CSV file, with a header row and data rows
OneCsvLog ==
    /\ perfmon.dir_exists
    /\ Len(perfmon.files) = 1
    /\ perfmon.files[1].ext = "csv" /\ perfmon.files[1].recent
    /\ Len(perfmon.files[1].rows) >= 2

\* the rows of that file, the header first
LogRows == perfmon.files[1].rows

\* the positions in LogRows of the data rows
DataPositions == 2..Len(LogRows)

\* the data row at position k has a cell for every column of the header
FullRow(k) == Len(LogRows[k]) >= Len(LogRows[1])

\* the data row at position k has a cell that parses as a number under the column idx
NumericAt(k, idx) ==
    idx # NoIdx /\ Len(LogRows[k]) > idx /\ IsFloatText(LogRows[k][idx + 1])

\* a well-formed row: full, with a numeric processor time cell
WellFormedRows ==
    { k \in DataPositions : FullRow(k) /\ NumericAt(k, ColumnsOf(LogRows[1]).cpu_idx) }

\* the malformed rows that still carry a sample: full, no processor time, numeric memory
MemoryOnlyRows ==
    { k \in DataPositions \ WellFormedRows :
        FullRow(k) /\ NumericAt(k, ColumnsOf(LogRows[1]).memory_idx) }

\* how many rows up to position k carry a sample
RankOf(k) == Cardinality({ c \in WellFormedRows \cup MemoryOnlyRows : c <= k })

C21_EdgesAreLocalCommEdges ==
    DepsDone =>
        \A k \in 1..Len(port_deps.dependency_graph) :
            LET e == port_deps.dependency_graph[k]
            IN  \E j \in 1..Len(app_comm.communication_matrix) :
                    LET m == app_comm.communication_matrix[j]
                    IN  /\ m.connection_type = "local"
                        /\ m.source_process = e.client_process
                        /\ m.source_pid = e.client_pid
                        /\ m.target_port = e.server_port

\* a timestamped row of the expected shape: the time first, a CPU label, six numbers
FitsDataShape(parts) ==
    /\ Len(parts) >= 8
    /\ Contains(parts[1], ":")
    /\ ~StartsWith(parts[1], <<"A", "v", "e", "r", "a", "g", "e">>)
    /\ \A k \in 3..8 : IsFloatText(parts[k])

\* a summary row of the expected shape: "Average:", a CPU label, six numbers
FitsAverageShape(parts) ==
    /\ Len(parts) >= 8
    /\ parts[1] = <<"A", "v", "e", "r", "a", "g", "e", ":">>
    /\ \A k \in 3..8 : IsFloatText(parts[k])

\* C22: in the sar parser a row that does not fit the expected shape is skipped alone:
\* every timestamped row of the expected shape becomes a sample whatever rows precede
\* it, and a summary row of the expected shape fills the average whatever rows
\* precede it
C22_MisfitRowSkippedAlone ==
    (HistoryDone /\ sysstat.exists /\ sysstat.helper = "ok") =>
        LET lines == sysstat.lines
            fits == { i \in 1..Len(lines) : FitsDataShape(lines[i]) }
        IN  /\ Len(cpu_history.hourly_data) = Cardinality(fits)
            /\ \A i \in fits :
                  \E k \in 1..Len(cpu_history.hourly_data) :
                      cpu_history.hourly_data[k].time = lines[i][1]
            /\ (\E i \in 1..Len(lines) : FitsAverageShape(lines[i])) =>
                  DOMAIN cpu_history.average
                      = {"user", "nice", "system", "iowait", "steal", "idle"}

\* the Python index of the first header that satisfies a rule, NoIdx when none does
LowestMatch(headers, Rule(_)) ==
    LET hits == { k \in 1..Len(headers) : Rule(headers[k]) }
    IN  IF hits = {} THEN NoIdx
        ELSE (CHOOSE k \in hits : \A j \in hits : k <= j) - 1

\* the rules of the four semantic fields
IsTimestampHeader(h) == HasSub(h, TextTime) \/ HasSub(h, TextPdhCsv)

IsCpuHeader(h) == HasSub(h, TextProcessorTime) /\ HasSub(h, TextTotal)

IsMemoryHeader(h) == HasSub(h, TextAvailableMBytes)

IsDiskHeader(h) == HasSub(h, TextDiskTime) /\ HasSub(h, TextTotal)

\* each field bound to the lowest-indexed header that satisfies its rule
FirstMatches(headers) ==
    [timestamp_idx |-> LowestMatch(headers, IsTimestampHeader),
     cpu_idx |-> LowestMatch(headers, IsCpuHeader),
     memory_idx |-> LowestMatch(headers, IsMemoryHeader),
     disk_idx |-> LowestMatch(headers, IsDiskHeader)]

\* C23: the header scan of every log that the reader has processed, CSV file or relog
\* export, binds each of timestamp, CPU, memory and disk to the lowest-indexed header
\* that satisfies the field's rule, index 0 included
C23_FirstMatchingHeaderWins ==
    (HistoryDone /\ perfmon.dir_exists) =>
        \A k \in 1..Len(perfmon.files) :
            LET f == perfmon.files[k]
            IN  (f.recent /\ Len(f.rows) >= 2) =>
                    /\ f.ext = "csv" => ColumnsOf(f.rows[1]) = FirstMatches(f.rows[1])
                    /\ f.ext = "blg" => KeysOf(f.rows[1]) = FirstMatches(f.rows[1])

\* the recent CSV files of the directory, in the order the directory scan lists them
ScannedCsvFiles == SelectSeq(perfmon.files, IsRecentCsv)

\* what one file gives when it is parsed on its own
AloneOf(f) == CsvFile([cpu_values |-> <<>>, hourly_data |-> <<>>, file_errors |-> <<>>], f.rows)

RECURSIVE SamplesInFileOrder(_, _)
\* the samples of files[k..], each file's samples in the order of its rows
SamplesInFileOrder(files, k) ==
    IF k > Len(files) THEN <<>>
    ELSE AloneOf(files[k]).hourly_data \o SamplesInFileOrder(files, k + 1)

C25_Step ==
    pc \in {"network", "comm"} =>
        /\ port_service_map' = port_service_map
        /\ service_port_map' = service_port_map
        /\ process_connections' = process_connections

\* C25: once get_network_info has built the port index, the later stages leave it as it
\* is: no step taken after get_network_info, through get_application_communication_map
\* and get_port_dependencies, changes port_service_map, service_port_map or
\* process_connections
C25_IndexReadOnlyAfterBuild == [][C25_Step]_vars

\* both later stages have run over a non-empty index and used it
C25_Witness ==
    /\ DepsDone
    /\ DOMAIN port_service_map # {}
    /\ DOMAIN service_port_map # {}
    /\ process_connections # <<>>
    /\ app_comm.communication_matrix # <<>>
    /\ port_deps.dependency_graph # <<>>

\* C26: the temporary CSV file of the .blg conversion is gone when
\* get_previous_day_cpu_utilization has returned, whether the export parsed, the
\* parse raised, relog exited nonzero or relog timed out
C26_TempCsvRemoved == HistoryDone => ~perfmon.temp_csv

\* C27: after any sequence of get_network_info calls on one object the two directions
\* of the port index agree: every port listed under a service in service_port_map is
\* mapped to that service by port_service_map, and every port of port_service_map is
\* listed under its service in service_port_map
C27_IndexDirectionsAgree ==
    /\ \A s \in DOMAIN service_port_map :
          \A p \in Range(service_port_map[s]) :
              p \in DOMAIN port_service_map /\ port_service_map[p].service = s
    /\ \A p \in DOMAIN port_service_map :
          /\ port_service_map[p].service \in DOMAIN service_port_map
          /\ p \in Range(service_port_map[port_service_map[p].service])

\* the remote address of fact i is one the grapher can split into one ip and one port
Splittable(i) ==
    ParseRemoteComm(FormatAddr(connections[i].rip, connections[i].rport)).ok

\* C28: in get_application_communication_map a connection whose remote address cannot
\* be split into one ip and one port affects that connection only: every other
\* ESTABLISHED connection of a process that can be looked up still has its entry in
\* communication_matrix and its process in process_to_service, and when it is a
\* loopback connection its target service has the process among its service_clients
C28_BadAddressAffectsOneConnection ==
    CommDone =>
        \A i \in FactsWithStatus("ESTABLISHED") :
            LET c == connections[i]
                name == ProcName(c.pid)
                target == TargetService(port_service_map, c.rport)
            IN  (Splittable(i) /\ c.pid \in alive) =>
                    /\ \E k \in 1..Len(app_comm.communication_matrix) :
                          LET m == app_comm.communication_matrix[k]
                          IN  m.source_pid = c.pid /\ m.target_port = c.rport
                    /\ name \in DOMAIN app_comm.process_to_service
                    /\ IsLoopback(c.rip) =>
                          /\ target \in DOMAIN app_comm.service_clients
                          /\ name \in ClientNames(app_comm.service_clients[target])

\* the Performance Monitor setup of collect_all keeps every log of the directory
C29_Step ==
    pc = "setup" => \A k \in 1..Len(perfmon.files) : perfmon.files[k] \in Range(perfmon'.files)

\* C29: in the Windows collect_all no log that is in the collector directory when
\* collect_all starts is deleted before get_previous_day_cpu_utilization has read it:
\* the automatic Performance Monitor setup that runs first removes no .csv or .blg file
C29_SetupKeepsHistory == [][C29_Step]_vars

\* the data rows of file f that the parser keeps and that carry a processor value: the
\* row reaches past the largest column found and its processor cell is a number
CpuRowsOf(f) ==
    LET ix == ColumnsOf(f.rows[1])
    IN  IF Len(f.rows) < 2 \/ TruthyIndices(ix) = {} THEN {}
        ELSE { k \in 2..Len(f.rows) :
                 /\ Len(f.rows[k]) > SetMax(TruthyIndices(ix))
                 /\ ix.cpu_idx # NoIdx
                 /\ IsFloatText(f.rows[k][ix.cpu_idx + 1]) }

RECURSIVE CpuRowCount(_, _)
\* how many such rows files[k..] hold
CpuRowCount(files, k) ==
    IF k > Len(files) THEN 0
    ELSE Cardinality(CpuRowsOf(files[k])) + CpuRowCount(files, k + 1)

SomeCpuCell ==
    \E j \in 1..Len(ScannedCsvFiles) :
        LET rows == ScannedCsvFiles[j].rows
        IN  /\ Len(rows) >= 2
            /\ \E k \in 2..Len(rows) : HasCell(rows[k], ColumnsOf(rows[1]).cpu_idx)
                                       /\ IsFloatText(rows[k][ColumnsOf(rows[1]).cpu_idx + 1])

====
